---- MODULE Spec2Model ----
(***************************************************************************)
(* EnergyHub backend: NEM12 interval store, invoice calculator and         *)
(* reconciliation engine (src/backend/app).                                *)
(*                                                                         *)
(* Units.  Money is Decimal with two places in the code and an integer     *)
(* number of cents here.  A percentage is kept as the exact fraction       *)
(* num/den; a percentage rounded to two places is an integer number of     *)
(* hundredths of a percent.  tolerance_percent is a whole number of        *)
(* percent.  An Optional value is <<>> for None and <<v>> for a value.     *)
(*                                                                         *)
(* Specifications.                                                         *)
(*   SpecMatch    ReconciliationEngine._reconcile_line_items applied to    *)
(*                line-item lists drawn from bounded sets.                 *)
(*   SpecSummary  the part of ReconciliationEngine.reconcile that follows  *)
(*                the two lookups, applied to a parsed and a calculated    *)
(*                invoice drawn from bounded sets.                         *)
(*   SpecCalc     an InvoiceCalculator and the NEM12Service it owns.       *)
(*   SpecEngine   the /reconciliation endpoints over a ReconciliationEngine*)
(*                whose own parser and NEM12Service have been fed.         *)
(*   Spec         the HTTP endpoints of api/nem12.py, api/invoices.py and  *)
(*                api/reconciliation.py over the module-level services.    *)
(*   SpecRow      NEM12Service._parse_300_record applied to a 300 row and  *)
(*                the meter of a 200 row, both drawn from bounded sets.    *)
(*   SpecNem12    a NEM12Service handed a file drawn from bounded sets:    *)
(*                process_nem12, then get_consumption_summary.             *)
(*   SpecIngest   the same two calls on files of irregular rows and on     *)
(*                files of one day of hourly readings.                     *)
(*   SpecBuckets  _reconcile_line_items on calculated lists one item       *)
(*                longer than those of SpecMatch.                          *)
(*   SpecParallel two reconcile calls on one engine, interleaved at their  *)
(*                awaits.                                                  *)
(***************************************************************************)
EXTENDS Integers, Sequences, FiniteSets, TLC

VARIABLES
    \* ---- _reconcile_line_items: its arguments, its result
    invoiced_items,       \* list of invoiced line items
    calculated_items,     \* list of calculated line items
    reconciled,           \* the returned list of records
    \* ---- reconcile after its lookups: its inputs, its result
    parsed_invoice,       \* <<the dict get_invoice returned>>
    calculated_invoice,   \* <<the dict calculate returned>>
    summary,              \* <<the fields of the result dict>>
    \* ---- shared by the two
    tolerance_percent,    \* tolerance argument
    pc,                   \* "call" before the call, "done" after it
    \* ---- NEM12Service on its own: the rows handed to it
    nem12_content,        \* list of rows, a row the list of its fields
    \* ---- reconcile calls under way on the engine, each at an await
    tasks,                \* per call: its arguments, its position, its locals
    \* ---- the services, each dict keyed by file or reconciliation id
    nem12_file_data,      \* api/nem12.py nem12_service._file_data
    parser_invoices,      \* api/invoices.py invoice_parser._invoices
    calc_file_data,       \* an InvoiceCalculator's _nem12_service._file_data
    engine_invoices,      \* the engine's _invoice_parser._invoices
    engine_file_data,     \* the engine's _invoice_calculator._nem12_service._file_data
    reconciliations,      \* the engine's _reconciliations
    issued,               \* number of uuid.uuid4() calls so far
    response,             \* the last call and what it returned or raised
    runs                  \* history: inputs and result of each reconcile that returned

itemVars == <<invoiced_items, calculated_items, reconciled>>
invoiceVars == <<parsed_invoice, calculated_invoice, summary>>
callVars == <<tolerance_percent, pc, nem12_content, tasks>>
apiVars == <<nem12_file_data, parser_invoices>>
engineVars == <<engine_invoices, engine_file_data, reconciliations, issued, runs>>
vars == <<itemVars, invoiceVars, callVars, apiVars, calc_file_data, engineVars, response>>

(***************************************************************************)
(* Bounds and input domains                                                *)
(***************************************************************************)
\* longest line-item list handed to the matcher
MaxItems == 2

\* charge types of the line items drawn for the matcher
MatchChargeTypes == {"usage", "supply"}

\* amounts, in cents, of the invoiced and of the calculated items drawn
InvoicedAmounts == {0, 4800, 5000}
CalculatedAmounts == {-4800, 0, 4800}

\* tolerances, in percent, drawn for the matcher
MatchTolerances == {1, 10}

\* most reconciliations stored in a behaviour
MaxIds == 3

\* most files uploaded over HTTP in a behaviour
MaxUploads == 2

\* most file ids a caller of NEM12Service.process_nem12 picks from
MaxFiles == 2

\* most reading fields of a 300 row drawn for _parse_300_record
MaxRowValues == 3

\* most rows of a file drawn for process_nem12
MaxRows == 5

(***************************************************************************)
(* Arithmetic helpers                                                      *)
(***************************************************************************)
Abs(x) == IF x < 0 THEN -x ELSE x

\* Decimal.quantize(Decimal('0.01'), rounding=ROUND_HALF_UP) of num/den,
\* den > 0: to the nearest integer, a tie going away from zero.
RoundHalfUp(num, den) ==
    IF num >= 0 THEN (2 * num + den) \div (2 * den)
    ELSE -((2 * (-num) + den) \div (2 * den))

\* round(x, 2) of the float x = num/den, in hundredths (num >= 0, den > 0):
\* to the nearest, an exact tie going to the even one.
Round2(num, den) ==
    LET q == (100 * num) \div den
        r == (100 * num) % den
    IN  IF 2 * r < den THEN q
        ELSE IF 2 * r > den THEN q + 1
        ELSE IF q % 2 = 0 THEN q ELSE q + 1

(***************************************************************************)
(* ReconciliationEngine._reconcile_line_items                              *)
(***************************************************************************)
\* calc_by_type[charge_type]: the calculated items of one charge type, in
\* their order of appearance.
calc_by_type(calculated, charge_type) ==
    SelectSeq(calculated, LAMBDA item : item.charge_type = charge_type)

\* The keys of calc_by_type in insertion order: each charge type at the
\* place of its first calculated item.
RECURSIVE calc_by_type_keys(_, _, _)
calc_by_type_keys(calculated, k, keys) ==
    IF k > Len(calculated) THEN keys
    ELSE IF \E n \in 1..Len(keys) : keys[n] = calculated[k].charge_type
         THEN calc_by_type_keys(calculated, k + 1, keys)
         ELSE calc_by_type_keys(calculated, k + 1,
                                Append(keys, calculated[k].charge_type))

\* The inner loop: the position j in the bucket of the best match, 0 when
\* best_match stays None.  j is skipped when it is in calculated_matched;
\* a strictly smaller |diff| replaces the best so far.
RECURSIVE best_match(_, _, _, _, _)
best_match(bucket, calculated_matched, inv_amount, j, best) ==
    IF j > Len(bucket) THEN best
    ELSE IF j \in calculated_matched
         THEN best_match(bucket, calculated_matched, inv_amount, j + 1, best)
         ELSE IF best = 0
                 \/ Abs(inv_amount - bucket[j].amount)
                      < Abs(inv_amount - bucket[best].amount)
              THEN best_match(bucket, calculated_matched, inv_amount, j + 1, j)
              ELSE best_match(bucket, calculated_matched, inv_amount, j + 1, best)

\* A mutant of pct_diff: the difference taken relative to the invoiced amount.
pct_diff_of_invoiced(inv_amount, calc_amount) ==
    IF inv_amount > 0
    THEN [num |-> Abs(inv_amount - calc_amount) * 100, den |-> inv_amount]
    ELSE [num |-> IF inv_amount - calc_amount # 0 THEN 100 ELSE 0, den |-> 1]

\* pct_diff of a pair, as the fraction num/den.
pct_diff(inv_amount, calc_amount) ==
    IF calc_amount > 0
    THEN [num |-> Abs(inv_amount - calc_amount) * 100, den |-> calc_amount]
    ELSE [num |-> IF inv_amount - calc_amount # 0 THEN 100 ELSE 0, den |-> 1]

\* A mutant of status_of: the 5% band tested before the tolerance.
status_minor_first(pct, tolerance) ==
    IF pct.num <= 5 * pct.den THEN "minor"
    ELSE IF pct.num <= tolerance * pct.den THEN "match"
    ELSE "significant"

\* The status of a pair from its pct_diff and the tolerance.
status_of(pct, tolerance) ==
    IF pct.num <= tolerance * pct.den THEN "match"
    ELSE IF pct.num <= 5 * pct.den THEN "minor"
    ELSE "significant"

\* The record appended for an invoiced item paired with a calculated item.
matched_record(inv_item, calc_item, tolerance) ==
    LET pct == pct_diff(inv_item.amount, calc_item.amount)
    IN  [description |-> inv_item.description,
         charge_type |-> inv_item.charge_type,
         invoiced_quantity |-> inv_item.quantity,
         invoiced_amount |-> inv_item.amount,
         calculated_quantity |-> calc_item.quantity,
         calculated_amount |-> calc_item.amount,
         amount_difference |-> inv_item.amount - calc_item.amount,
         percentage_difference |-> <<Round2(pct.num, pct.den)>>,
         status |-> status_of(pct, tolerance)]

\* A mutant of missing_calculated_record: the invoiced quantity is lost.
missing_calculated_no_quantity(inv_item) ==
    [description |-> inv_item.description,
     charge_type |-> inv_item.charge_type,
     invoiced_quantity |-> <<>>,
     invoiced_amount |-> inv_item.amount,
     calculated_quantity |-> <<>>,
     calculated_amount |-> 0,
     amount_difference |-> inv_item.amount,
     percentage_difference |-> <<>>,
     status |-> "missing_calculated"]

\* The record appended for an invoiced item with no best match.
missing_calculated_record(inv_item) ==
    [description |-> inv_item.description,
     charge_type |-> inv_item.charge_type,
     invoiced_quantity |-> inv_item.quantity,
     invoiced_amount |-> inv_item.amount,
     calculated_quantity |-> <<>>,
     calculated_amount |-> 0,
     amount_difference |-> inv_item.amount,
     percentage_difference |-> <<>>,
     status |-> "missing_calculated"]

\* The record appended for a calculated item whose bucket position is not
\* in calculated_matched.
missing_invoiced_record(charge_type, calc_item) ==
    [description |-> calc_item.description,
     charge_type |-> charge_type,
     invoiced_quantity |-> <<>>,
     invoiced_amount |-> 0,
     calculated_quantity |-> calc_item.quantity,
     calculated_amount |-> calc_item.amount,
     amount_difference |-> -calc_item.amount,
     percentage_difference |-> <<>>,
     status |-> "missing_invoiced"]

\* The loop over the invoiced items.  calculated_matched holds bucket
\* positions only: one set serves the buckets of every charge type.
RECURSIVE match_invoiced(_, _, _, _, _, _)
match_invoiced(invoiced, calculated, tolerance, i, calculated_matched, acc) ==
    IF i > Len(invoiced)
    THEN [reconciled |-> acc, calculated_matched |-> calculated_matched]
    ELSE LET inv_item == invoiced[i]
             bucket == calc_by_type(calculated, inv_item.charge_type)
             j == best_match(bucket, calculated_matched, inv_item.amount, 1, 0)
         IN  IF j # 0
             THEN match_invoiced(invoiced, calculated, tolerance, i + 1,
                      calculated_matched \cup {j},
                      Append(acc, matched_record(inv_item, bucket[j], tolerance)))
             ELSE match_invoiced(invoiced, calculated, tolerance, i + 1,
                      calculated_matched,
                      Append(acc, missing_calculated_record(inv_item)))

\* The records of one bucket in the closing loop.
RECURSIVE unmatched_in_bucket(_, _, _, _, _)
unmatched_in_bucket(charge_type, bucket, calculated_matched, j, acc) ==
    IF j > Len(bucket) THEN acc
    ELSE unmatched_in_bucket(charge_type, bucket, calculated_matched, j + 1,
             IF j \notin calculated_matched
             THEN Append(acc, missing_invoiced_record(charge_type, bucket[j]))
             ELSE acc)

\* The closing loop over calc_by_type.items().
RECURSIVE unmatched_calculated(_, _, _, _, _)
unmatched_calculated(calculated, keys, calculated_matched, k, acc) ==
    IF k > Len(keys) THEN acc
    ELSE unmatched_calculated(calculated, keys, calculated_matched, k + 1,
             unmatched_in_bucket(keys[k], calc_by_type(calculated, keys[k]),
                                 calculated_matched, 1, acc))

reconcile_line_items(invoiced, calculated, tolerance) ==
    LET m == match_invoiced(invoiced, calculated, tolerance, 1, {}, <<>>)
    IN  unmatched_calculated(calculated,
                             calc_by_type_keys(calculated, 1, <<>>),
                             m.calculated_matched, 1, m.reconciled)

(***************************************************************************)
(* NEM12Service (services/nem12_service.py)                                *)
(*                                                                         *)
(* A file's content is the list of its rows and a row the list of its      *)
(* comma-separated fields, each a string.  The conversions of a field are  *)
(* tables over the strings the model draws: a string outside a table is    *)
(* one the conversion rejects.  Energy is a float in the code and a whole  *)
(* number of half kWh here (the readings drawn are multiples of 0.5, whose *)
(* float sums are exact).  A date is its proleptic ordinal.                *)
(***************************************************************************)
\* float(field), in half kWh; a field outside the table raises ValueError
FloatValue ==
    ("0.5" :> 1) @@ ("1.0" :> 2) @@ ("1.5" :> 3) @@ ("2.5" :> 5) @@ ("-1.0" :> -2)

\* int(field) for the fields on which str.isdigit() holds
DigitValue ==
    ("0" :> 0) @@ ("5" :> 5) @@ ("7" :> 7) @@ ("15" :> 15) @@ ("30" :> 30)
        @@ ("60" :> 60) @@ ("420" :> 420) @@ ("480" :> 480) @@ ("720" :> 720)
        @@ ("1440" :> 1440)

\* datetime.strptime(field, '%Y%m%d').date(); a field outside the table
\* raises ValueError
DateValue ==
    ("20231201" :> 738855) @@ ("20231202" :> 738856) @@ ("20231203" :> 738857)
        @@ ("20231204" :> 738858) @@ ("20231231" :> 738885)

\* date.weekday(): Monday is 0
weekday(d) == (d + 6) % 7

\* dict.get(key, default) on a record used as a dict
DictGet(d, key, default) == IF key \in DOMAIN d THEN d[key] ELSE default

\* fields[k] of the code is fields[k + 1] here
parse_200_record(fields) ==
    [nmi |-> IF Len(fields) > 1 THEN fields[2] ELSE "",
     unit_of_measure |-> IF Len(fields) > 7 THEN fields[8] ELSE "kWh",
     interval_length |-> IF Len(fields) > 8 /\ fields[9] \in DOMAIN DigitValue
                         THEN DigitValue[fields[9]] ELSE 30,
     start_date |-> <<>>,
     end_date |-> <<>>,
     total_consumption |-> 0,
     interval_count |-> <<>>]

\* a loop that ends at the first field float() rejects
parse_300_values_until_malformed(fields, interval_date, unit, intervals_per_day) ==
    LET last == IF intervals_per_day < Len(fields) - 2
                THEN intervals_per_day ELSE Len(fields) - 2
        bad == {n \in 1..last : fields[2 + n] \notin DOMAIN FloatValue}
        stop == IF bad = {} THEN last
                ELSE (CHOOSE n \in bad : \A m \in bad : n <= m) - 1
    IN  [k \in 1..stop |->
            [date |-> interval_date, interval |-> k,
             value |-> FloatValue[fields[2 + k]], unit |-> unit]]

\* The loop over range(intervals_per_day): reading i + 1 is fields[2 + i]
\* when that index exists; a field float() rejects is passed over.  read
\* lists, in the loop's order, the i + 1 whose field float() accepts.
parse_300_values(fields, interval_date, unit, intervals_per_day) ==
    LET last == IF intervals_per_day < Len(fields) - 2
                THEN intervals_per_day ELSE Len(fields) - 2
        read == SelectSeq([n \in 1..last |-> n],
                          LAMBDA n : fields[2 + n] \in DOMAIN FloatValue)
    IN  [k \in 1..Len(read) |->
            [date |-> interval_date, interval |-> read[k],
             value |-> FloatValue[fields[2 + read[k]]], unit |-> unit]]

\* the sum of the values of intervals[lo..hi], added up by halves
RECURSIVE SumValues(_, _, _)
SumValues(intervals, lo, hi) ==
    IF lo > hi THEN 0
    ELSE IF lo = hi THEN intervals[lo].value
    ELSE LET mid == (lo + hi) \div 2
         IN  SumValues(intervals, lo, mid) + SumValues(intervals, mid + 1, hi)

\* a date range that ends at the date of the row read last
parse_300_record_last_date(fields, meter) ==
    IF meter.interval_length = 0
    THEN [raised |-> TRUE, meter |-> meter, intervals |-> <<>>]
    ELSE LET intervals_per_day == 1440 \div meter.interval_length
             date_str == IF Len(fields) > 1 THEN fields[2] ELSE ""
         IN  IF date_str \notin DOMAIN DateValue
             THEN [raised |-> FALSE, meter |-> meter, intervals |-> <<>>]
             ELSE LET interval_date == DateValue[date_str]
                      intervals == parse_300_values(fields, interval_date,
                                       meter.unit_of_measure, intervals_per_day)
                  IN  [raised |-> FALSE,
                       meter |-> [meter EXCEPT
                           !.start_date =
                               IF @ = <<>> \/ interval_date < @[1]
                               THEN <<interval_date>> ELSE @,
                           !.end_date = <<interval_date>>,
                           !.total_consumption =
                               @ + SumValues(intervals, 1, Len(intervals))],
                       intervals |-> intervals]

\* _parse_300_record: the intervals read, the meter as the call leaves it,
\* and whether the call raised (1440 // 0).
parse_300_record(fields, meter) ==
    IF meter.interval_length = 0
    THEN [raised |-> TRUE, meter |-> meter, intervals |-> <<>>]
    ELSE LET intervals_per_day == 1440 \div meter.interval_length
             date_str == IF Len(fields) > 1 THEN fields[2] ELSE ""
         IN  IF date_str \notin DOMAIN DateValue
             THEN [raised |-> FALSE, meter |-> meter, intervals |-> <<>>]
             ELSE LET interval_date == DateValue[date_str]
                      intervals == parse_300_values(fields, interval_date,
                                       meter.unit_of_measure, intervals_per_day)
                  IN  [raised |-> FALSE,
                       meter |-> [meter EXCEPT
                           !.start_date =
                               IF @ = <<>> \/ interval_date < @[1]
                               THEN <<interval_date>> ELSE @,
                           !.end_date =
                               IF @ = <<>> \/ interval_date > @[1]
                               THEN <<interval_date>> ELSE @,
                           !.total_consumption =
                               @ + SumValues(intervals, 1, Len(intervals))],
                       intervals |-> intervals]

\* len(interval_data.get(nmi, []))
interval_count_of(interval_data, nmi) ==
    IF nmi \in DOMAIN interval_data THEN Len(interval_data[nmi]) ELSE 0

\* interval_count is set on the current meter and the meter is appended to
\* meters.  objs holds the meter dicts; meters and current refer to them by
\* position, as the code's list and variable refer to the same dict.
finalize_current(st) ==
    [st EXCEPT
        !.objs[st.current].interval_count =
            <<interval_count_of(st.interval_data, st.objs[st.current].nmi)>>,
        !.meters = Append(@, st.current)]

\* a loop in which a 300 row read with no channel open is an error
process_line_needing_channel(st, fields) ==
    LET record_type == fields[1]
    IN  IF st.raised THEN st
        ELSE IF record_type = "200"
        THEN LET fin == IF st.current # 0 THEN finalize_current(st) ELSE st
                 meter == parse_200_record(fields)
             IN  [fin EXCEPT
                     !.objs = Append(@, meter),
                     !.current = Len(fin.objs) + 1,
                     !.interval_data =
                         [n \in DOMAIN @ \cup {meter.nmi} |->
                             IF n = meter.nmi THEN <<>> ELSE @[n]]]
        ELSE IF record_type = "300"
        THEN IF st.current = 0 THEN [st EXCEPT !.raised = TRUE]
             ELSE LET r == parse_300_record(fields, st.objs[st.current])
                      nmi == st.objs[st.current].nmi
                  IN  IF r.raised THEN [st EXCEPT !.raised = TRUE]
                      ELSE [st EXCEPT
                               !.objs[st.current] = r.meter,
                               !.interval_data[nmi] = @ \o r.intervals]
        ELSE IF record_type = "900"
        THEN IF st.current # 0 THEN finalize_current(st) ELSE st
        ELSE st

\* One turn of the loop over the lines of process_nem12.
process_line(st, fields) ==
    LET record_type == fields[1]
    IN  IF st.raised THEN st
        ELSE IF record_type = "200"
        THEN LET fin == IF st.current # 0 THEN finalize_current(st) ELSE st
                 meter == parse_200_record(fields)
             IN  [fin EXCEPT
                     !.objs = Append(@, meter),
                     !.current = Len(fin.objs) + 1,
                     !.interval_data =
                         [n \in DOMAIN @ \cup {meter.nmi} |->
                             IF n = meter.nmi THEN <<>> ELSE @[n]]]
        ELSE IF record_type = "300"
        THEN IF st.current = 0 THEN st
             ELSE LET r == parse_300_record(fields, st.objs[st.current])
                      nmi == st.objs[st.current].nmi
                  IN  IF r.raised THEN [st EXCEPT !.raised = TRUE]
                      ELSE [st EXCEPT
                               !.objs[st.current] = r.meter,
                               !.interval_data[nmi] = @ \o r.intervals]
        ELSE IF record_type = "900"
        THEN IF st.current # 0 THEN finalize_current(st) ELSE st
        ELSE st

RECURSIVE process_lines(_, _, _)
process_lines(st, lines, k) ==
    IF k > Len(lines) THEN st
    ELSE process_lines(process_line(st, lines[k]), lines, k + 1)

\* an ingest that raises on content in which it recognizes no row
process_nem12_rejecting_unreadable(content) ==
    LET st == process_lines([objs |-> <<>>, meters |-> <<>>, current |-> 0,
                             interval_data |-> <<>>, raised |-> FALSE],
                            content, 1)
        meters == [k \in 1..Len(st.meters) |-> st.objs[st.meters[k]]]
        recognized == {k \in 1..Len(content) :
                          content[k][1] \in {"200", "300", "900"}}
    IN  [raised |-> st.raised \/ recognized = {},
         meters |-> meters,
         data |-> [meters |-> meters, intervals |-> st.interval_data]]

\* process_nem12: whether it raised, the list it returns and the entry it
\* stores in _file_data.
process_nem12(content) ==
    LET st == process_lines([objs |-> <<>>, meters |-> <<>>, current |-> 0,
                             interval_data |-> <<>>, raised |-> FALSE],
                            content, 1)
        meters == [k \in 1..Len(st.meters) |-> st.objs[st.meters[k]]]
    IN  [raised |-> st.raised,
         meters |-> meters,
         data |-> [meters |-> meters, intervals |-> st.interval_data]]

\* a peak window that is open on every day of the week
is_peak_any_day(interval, interval_length) ==
    LET minutes == (interval.interval - 1) * interval_length
        hour == minutes \div 60
    IN  7 <= hour /\ hour < 22

\* is_peak of the loop of get_consumption_summary, for one interval
is_peak(interval, interval_length) ==
    LET minutes == (interval.interval - 1) * interval_length
        hour == minutes \div 60
        is_weekday == weekday(interval.date) < 5
    IN  is_weekday /\ 7 <= hour /\ hour < 22

\* The peak/off-peak loop of get_consumption_summary over one meter's
\* intervals: <<peak_kwh, off_peak_kwh>>, each interval's value added to
\* the one or to the other.
peak_off_peak(intervals, interval_length) ==
    LET peak == SelectSeq(intervals, LAMBDA x : is_peak(x, interval_length))
        off_peak == SelectSeq(intervals, LAMBDA x : ~is_peak(x, interval_length))
    IN  << SumValues(peak, 1, Len(peak)), SumValues(off_peak, 1, Len(off_peak)) >>

\* get_consumption_summary for the file stored under file_id in file_data
get_consumption_summary(file_data, file_id) ==
    IF file_id \notin DOMAIN file_data THEN <<>>
    ELSE LET data == file_data[file_id]
         IN  [k \in 1..Len(data.meters) |->
                LET meter == data.meters[k]
                    intervals == IF meter.nmi \in DOMAIN data.intervals
                                 THEN data.intervals[meter.nmi] ELSE <<>>
                    split == peak_off_peak(intervals, meter.interval_length)
                IN  [nmi |-> meter.nmi,
                     period_start |-> meter.start_date,
                     period_end |-> meter.end_date,
                     total_kwh |-> meter.total_consumption,
                     peak_kwh |-> split[1],
                     off_peak_kwh |-> split[2]]]

(***************************************************************************)
(* TariffFetcher (services/tariff_fetcher.py)                              *)
(*                                                                         *)
(* A rate in cents (Decimal, two places) is a whole number of hundredths   *)
(* of a cent here.                                                         *)
(***************************************************************************)
Period(name, rate) == [name |-> name, rate_cents_per_kwh |-> rate]

Tariff(provider, code, type, supply, usage, periods) ==
    [network_provider |-> provider, tariff_code |-> code, tariff_type |-> type,
     daily_supply_charge_cents |-> supply,
     usage_rate_cents_per_kwh |-> usage, time_periods |-> periods]

\* _sample_tariffs, flattened in the order get_tariff_by_code searches it:
\* the providers in the order of the NetworkProvider enum, each provider's
\* tariffs in list order.  usage_rate_cents_per_kwh is <<>> where the
\* sample has no such key.
sample_tariffs ==
    << Tariff("evoenergy", "RES-TOU", "tou", 5230, <<>>,
           <<Period("peak", 2450), Period("off_peak", 890), Period("off_peak", 890)>>),
       Tariff("ergon_energy", "8400", "flat", 10250, <<1245>>, <<>>),
       Tariff("energex", "8400", "flat", 5580, <<1123>>, <<>>),
       Tariff("ausgrid", "EA010", "tou", 9837, <<>>,
           <<Period("peak", 3564), Period("shoulder", 1287), Period("shoulder", 1287),
             Period("off_peak", 814), Period("off_peak", 814)>>),
       Tariff("ausgrid", "EA025", "flat", 9837, <<1845>>, <<>>),
       Tariff("essential_energy", "BLNN2AU", "flat", 11520, <<1485>>, <<>>),
       Tariff("endeavour_energy", "N70", "tou", 8950, <<>>,
           <<Period("peak", 2982), Period("shoulder", 1143), Period("off_peak", 789)>>),
       Tariff("ausnet_services", "NAST11", "tou", 4160, <<>>,
           <<Period("peak", 1814), Period("off_peak", 683), Period("off_peak", 683)>>),
       Tariff("powercor", "D1", "flat", 5520, <<985>>, <<>>),
       Tariff("jemena", "A100", "flat", 3670, <<825>>, <<>>),
       Tariff("citipower", "C1R", "flat", 3190, <<875>>, <<>>),
       Tariff("united_energy", "LVS1R", "flat", 3450, <<845>>, <<>>),
       Tariff("tasnetworks", "TAS31", "flat", 4250, <<1280>>, <<>>) >>

\* The search of get_tariff_by_code(None, tariff_code) over the tariffs a
\* fetcher holds: <<>> for None, else the dict the method returns for the
\* first tariff with that code.  The tariff's own fields sit under the key
\* 'network_tariff'.
lookup_tariff(tariffs, tariff_code) ==
    LET hits == SelectSeq(tariffs, LAMBDA t : t.tariff_code = tariff_code)
    IN  IF hits = <<>> THEN <<>>
        ELSE LET t == hits[1]
             IN  << [network_tariff |->
                        [tariff_code |-> t.tariff_code,
                         network_provider |-> t.network_provider,
                         tariff_type |-> t.tariff_type,
                         daily_supply_charge_cents |-> t.daily_supply_charge_cents,
                         usage_rate_cents_per_kwh |->
                             IF t.usage_rate_cents_per_kwh = <<>> THEN 0
                             ELSE t.usage_rate_cents_per_kwh[1],
                         time_periods |-> t.time_periods],
                     last_updated |-> "today",
                     source_url |-> "url"] >>

\* get_tariff_by_code(None, tariff_code) of a TariffFetcher as constructed
get_tariff_by_code(tariff_code) == lookup_tariff(sample_tariffs, tariff_code)

(***************************************************************************)
(* InvoiceCalculator (services/invoice_calculator.py)                      *)
(***************************************************************************)
\* default of network_tariff.get('daily_supply_charge_cents', 100)
DefaultDailySupplyChargeCents == 100
\* default of network_tariff.get('usage_rate_cents_per_kwh', 25)
DefaultUsageRateCentsPerKwh == 25
\* network_rate = Decimal('0.08') dollars per kWh, in cents
NetworkRateCentsPerKwh == 8
\* gst = subtotal * Decimal('0.10'), in percent
GstPercent == 10

\* str.lower() on the period names in use
Lower ==
    ("peak" :> "peak") @@ ("off_peak" :> "off_peak") @@ ("shoulder" :> "shoulder")
        @@ ("Peak" :> "peak") @@ ("OFF_PEAK" :> "off_peak")

\* defaults = {'peak': 35, 'off_peak': 18, 'shoulder': 25}, get(name, 25)
default_period_rate(period_name) ==
    100 * (IF period_name = "peak" THEN 35
           ELSE IF period_name = "off_peak" THEN 18
           ELSE 25)

\* _get_period_rate(tariff, period_name): the rate of the first period of
\* tariff.get('time_periods', []) with that name, else the default
get_period_rate(tariff, period_name) ==
    LET hits == SelectSeq(DictGet(tariff, "time_periods", <<>>),
                          LAMBDA p : Lower[p.name] = Lower[period_name])
    IN  IF hits # <<>> THEN hits[1].rate_cents_per_kwh
        ELSE default_period_rate(period_name)

\* (kwh * rate / 100).quantize(0.01, ROUND_HALF_UP) in cents, for kwh in
\* half kWh and rate in hundredths of a cent per kWh
energy_amount(half_kwh, rate) == RoundHalfUp(half_kwh * rate, 200)

LineItem(description, charge_type, quantity, unit, rate, amount) ==
    [description |-> description, charge_type |-> charge_type,
     quantity |-> <<quantity>>, unit |-> unit, rate |-> rate, amount |-> amount]

\* "Calculate supply charge": no item when the tariff is None, else one
\* item at network_tariff.get('daily_supply_charge_cents', 100) per day
supply_items(network_tariff, billing_days) ==
    IF network_tariff = <<>> THEN <<>>
    ELSE LET daily_supply ==
                 DictGet(network_tariff[1], "daily_supply_charge_cents",
                         100 * DefaultDailySupplyChargeCents)
         IN  << LineItem("Daily Supply Charge", "supply", billing_days, "day",
                         daily_supply,
                         RoundHalfUp(daily_supply * billing_days, 100)) >>

\* "Calculate usage charges": the time-of-use branch when the tariff has a
\* non-empty 'time_periods', else the flat branch
usage_items(network_tariff, consumption) ==
    IF network_tariff # <<>>
       /\ DictGet(network_tariff[1], "time_periods", <<>>) # <<>>
    THEN LET peak_rate == get_period_rate(network_tariff[1], "peak")
             off_peak_rate == get_period_rate(network_tariff[1], "off_peak")
         IN  (IF consumption.peak_kwh > 0
              THEN << LineItem("Peak Energy Usage", "usage", consumption.peak_kwh,
                               "kWh", peak_rate,
                               energy_amount(consumption.peak_kwh, peak_rate)) >>
              ELSE <<>>)
             \o
             (IF consumption.off_peak_kwh > 0
              THEN << LineItem("Off-Peak Energy Usage", "usage",
                               consumption.off_peak_kwh, "kWh", off_peak_rate,
                               energy_amount(consumption.off_peak_kwh, off_peak_rate)) >>
              ELSE <<>>)
    ELSE LET flat_rate ==
                 IF network_tariff # <<>>
                 THEN DictGet(network_tariff[1], "usage_rate_cents_per_kwh",
                              100 * DefaultUsageRateCentsPerKwh)
                 ELSE 100 * DefaultUsageRateCentsPerKwh
         IN  << LineItem("Energy Usage", "usage", consumption.total_kwh, "kWh",
                         flat_rate, energy_amount(consumption.total_kwh, flat_rate)) >>

\* "Calculate network charges"
network_items(consumption) ==
    << LineItem("Network Charges", "network", consumption.total_kwh, "kWh",
                100 * NetworkRateCentsPerKwh,
                energy_amount(consumption.total_kwh, 100 * NetworkRateCentsPerKwh)) >>

RECURSIVE SumAmounts(_, _)
SumAmounts(items, k) ==
    IF k > Len(items) THEN 0 ELSE items[k].amount + SumAmounts(items, k + 1)

\* totals whose tax is cut to the cent below instead of rounded
calculated_result_truncating_tax(nmi, period_start, period_end, line_items) ==
    LET subtotal == SumAmounts(line_items, 1)
        gst == (subtotal * GstPercent) \div 100
    IN  [nmi |-> nmi,
         billing_period_start |-> period_start,
         billing_period_end |-> period_end,
         line_items |-> line_items,
         subtotal |-> subtotal,
         gst |-> gst,
         total |-> subtotal + gst]

\* "Calculate totals" and the dict calculate returns
calculated_result(nmi, period_start, period_end, line_items) ==
    LET subtotal == SumAmounts(line_items, 1)
        gst == RoundHalfUp(subtotal * GstPercent, 100)
    IN  [nmi |-> nmi,
         billing_period_start |-> period_start,
         billing_period_end |-> period_end,
         line_items |-> line_items,
         subtotal |-> subtotal,
         gst |-> gst,
         total |-> subtotal + gst]

\* A call that raised, a call that returned
Raised(error) == [ok |-> FALSE, error |-> error, value |-> <<>>]
Returned(value) == [ok |-> TRUE, error |-> "", value |-> <<value>>]

\* InvoiceCalculator.calculate after its two awaits: summaries is what
\* get_consumption_summary returned and network_tariff the value its
\* fetcher's get_tariff_by_code returned.  billing_start and billing_end are <<>> for
\* None and <<date>> for a 'YYYY-MM-DD' string.
calculate_from_summaries(summaries, network_tariff, billing_start, billing_end) ==
        IF summaries = <<>>
        THEN Raised("ValueError: No consumption data found for file ID")
        ELSE
        LET consumption == summaries[1]
            given == billing_start # <<>> /\ billing_end # <<>>
            period_start == IF given THEN billing_start ELSE consumption.period_start
            period_end == IF given THEN billing_end ELSE consumption.period_end
        IN  IF period_start = <<>> \/ period_end = <<>>
            THEN Raised("TypeError")
            ELSE
            LET billing_days == period_end[1] - period_start[1] + 1
                line_items == supply_items(network_tariff, billing_days)
                                 \o usage_items(network_tariff, consumption)
                                 \o network_items(consumption)
            IN  Returned(calculated_result(consumption.nmi, period_start[1],
                                           period_end[1], line_items))

\* calculate with summaries read from the NEM12Service whose _file_data is
\* file_data
calculate_with_tariff(file_data, nem12_file_id, network_tariff, billing_start, billing_end) ==
    calculate_from_summaries(get_consumption_summary(file_data, nem12_file_id),
                             network_tariff, billing_start, billing_end)

\* InvoiceCalculator.calculate with the calculator's own TariffFetcher
calculate(file_data, nem12_file_id, network_tariff_code, billing_start, billing_end) ==
    calculate_with_tariff(file_data, nem12_file_id,
                          get_tariff_by_code(network_tariff_code),
                          billing_start, billing_end)

(***************************************************************************)
(* InvoiceParser (services/invoice_parser.py)                              *)
(*                                                                         *)
(* A quantity is in the item's unit, a kWh quantity in half kWh; a rate is *)
(* in hundredths of a cent per unit.                                       *)
(***************************************************************************)
\* _parse_invoice_text(_extract_text_from_pdf(pdf_content)): the text is
\* the same placeholder for every pdf_content, and this is the dict the
\* patterns read from it.  'total' is 303.50: the pattern for the total
\* matches inside "Subtotal: $303.50" first.
placeholder_invoice ==
    [invoice_number |-> "INV-2024-001234",
     nmi |-> "12345678901",
     billing_period_start |-> <<738855>>,
     billing_period_end |-> <<738885>>,
     line_items |->
         << LineItem("Peak Usage", "usage", 900, "kWh", 3500, 15750),
            LineItem("Off-Peak Usage", "usage", 560, "kWh", 1800, 5040),
            LineItem("Supply Charge", "supply", 31, "day", 12000, 3720),
            LineItem("Distribution", "network", 1460, "kWh", 800, 5840) >>,
     subtotal |-> 30350,
     gst |-> 3035,
     total |-> 30350]

\* parse_invoice: the invoice it stores and the dict it returns
parse_invoice(pdf_content) ==
    [invoice |-> placeholder_invoice, confidence |-> 100, warnings |-> <<>>]

(***************************************************************************)
(* dicts keyed by id                                                       *)
(***************************************************************************)
\* d[key] = value
Put(d, key, value) ==
    [k \in DOMAIN d \cup {key} |-> IF k = key THEN value ELSE d[k]]

(***************************************************************************)
(* ReconciliationEngine.reconcile (services/reconciliation_engine.py)      *)
(***************************************************************************)
\* total_percentage as the fraction num/den
total_percentage(total_difference, calculated_total) ==
    IF calculated_total > 0
    THEN [num |-> Abs(total_difference) * 100, den |-> calculated_total]
    ELSE [num |-> IF total_difference # 0 THEN 100 ELSE 0, den |-> 1]

\* sum(1 for r in line_reconciliations if r['status'] in statuses)
count_status(line_reconciliations, statuses) ==
    Cardinality({n \in DOMAIN line_reconciliations :
                    line_reconciliations[n].status \in statuses})

\* A mutant of overall_status: the total percentage difference is not
\* looked at.
overall_status_of_records(significant, minor, missing, total_pct, tolerance) ==
    IF significant > 0 THEN "significant"
    ELSE IF minor > 0 \/ missing > 0 THEN "minor"
    ELSE "match"

\* "Determine overall status"
overall_status(significant, minor, missing, total_pct, tolerance) ==
    IF significant > 0 \/ total_pct.num > 5 * total_pct.den
    THEN "significant"
    ELSE IF minor > 0 \/ missing > 0 \/ total_pct.num > tolerance * total_pct.den
    THEN "minor"
    ELSE "match"

\* _generate_recommendations: each sentence is named by its rule; the
\* figures a sentence quotes are total_diff, total_pct and the counts.
generate_recommendations(records, total_diff, total_pct) ==
    LET recommendations ==
            (IF total_pct.num > 5 * total_pct.den
             THEN IF total_diff > 0 THEN <<"total higher than calculated">>
                  ELSE <<"total lower than calculated">>
             ELSE <<>>)
            \o (IF count_status(records, {"missing_calculated"}) > 0
                THEN <<"invoice items not matched">> ELSE <<>>)
            \o (IF count_status(records, {"missing_invoiced"}) > 0
                THEN <<"calculated charges not on invoice">> ELSE <<>>)
            \o (IF \E n \in DOMAIN records :
                      /\ records[n].charge_type = "usage"
                      /\ records[n].status = "significant"
                THEN <<"significant usage discrepancy">> ELSE <<>>)
    IN  IF recommendations = <<>> THEN <<"matches within tolerance">>
        ELSE recommendations

\* reconcile from "Reconcile line items" to the result dict, without its
\* 'reconciliation_id'.  confidence_score is in hundredths.
summary_fields(parsed, calculated, tolerance) ==
    LET line_reconciliations ==
            reconcile_line_items(parsed.line_items, calculated.line_items,
                                 tolerance)
        invoiced_total == parsed.total
        calculated_total == calculated.total
        total_difference == invoiced_total - calculated_total
        total_pct == total_percentage(total_difference, calculated_total)
        matched == count_status(line_reconciliations, {"match"})
        minor == count_status(line_reconciliations, {"minor"})
        significant == count_status(line_reconciliations, {"significant"})
        missing == count_status(line_reconciliations,
                                {"missing_invoiced", "missing_calculated"})
        total_items == Len(line_reconciliations)
    IN  [nmi |-> parsed.nmi,
         invoice_number |-> parsed.invoice_number,
         billing_period_start |-> parsed.billing_period_start,
         billing_period_end |-> parsed.billing_period_end,
         invoiced_total |-> invoiced_total,
         calculated_total |-> calculated_total,
         total_difference |-> total_difference,
         total_percentage_difference |-> Round2(total_pct.num, total_pct.den),
         line_items |-> line_reconciliations,
         matched_items |-> matched,
         minor_discrepancies |-> minor,
         significant_discrepancies |-> significant,
         missing_items |-> missing,
         overall_status |-> overall_status(significant, minor, missing,
                                           total_pct, tolerance),
         confidence_score |-> IF total_items > 0
                              THEN Round2(matched, total_items) ELSE 0,
         recommendations |-> generate_recommendations(line_reconciliations,
                                 total_difference, total_pct)]

\* A mutant of result_of: the generated id is also written over the
\* invoice number.
result_numbered_by_id(fields, reconciliation_id) ==
    [reconciliation_id |-> reconciliation_id]
        @@ [fields EXCEPT !.invoice_number = reconciliation_id]

\* result = {'reconciliation_id': reconciliation_id, ...}
result_of(fields, reconciliation_id) ==
    [reconciliation_id |-> reconciliation_id] @@ fields

\* reconcile(invoice_file_id, nem12_file_id, network_tariff_code, None,
\* tolerance_percent) on an engine whose parser holds invoices and whose
\* calculator's NEM12Service holds file_data; reconciliation_id is what
\* uuid4 gives if the call gets that far.
reconcile(invoices, file_data, request, reconciliation_id) ==
    IF request.invoice_file_id \notin DOMAIN invoices
    THEN Raised("ValueError: Parsed invoice not found")
    ELSE LET parsed == invoices[request.invoice_file_id]
             calculated ==
                 calculate(file_data, request.nem12_file_id,
                           IF request.network_tariff_code \in {<<>>, <<"">>}
                           THEN "EA010" ELSE request.network_tariff_code[1],
                           parsed.billing_period_start,
                           parsed.billing_period_end)
         IN  IF ~calculated.ok THEN calculated
             ELSE Returned(result_of(
                      summary_fields(parsed, calculated.value[1],
                                     request.tolerance_percent),
                      reconciliation_id))

(***************************************************************************)
(* HTTP layer (api/, schemas/)                                             *)
(***************************************************************************)
\* raise HTTPException(status_code, detail); a handler that returned body
HttpError(status, detail) == [status |-> status, detail |-> detail, body |-> <<>>]
HttpOk(body) == [status |-> 200, detail |-> "", body |-> <<body>>]

\* A mutant of request_valid: tolerance_percent carries no constraint.
request_unconstrained(request) == TRUE

\* ReconciliationRequest: tolerance_percent = Field(default=1.0, ge=0, le=100)
request_valid(request) ==
    0 <= request.tolerance_percent /\ request.tolerance_percent <= 100

\* MeterData(**m): start_date and end_date are required dates
meter_data_valid(m) == m.start_date # <<>> /\ m.end_date # <<>>

\* str.endswith over the filenames drawn
Extension ==
    ("meter.csv" :> ".csv") @@ ("meter.pdf" :> ".pdf") @@ ("bill.pdf" :> ".pdf")
        @@ ("bill.PDF" :> ".PDF") @@ ("bill.txt" :> ".txt")

(***************************************************************************)
(* States after construction                                               *)
(***************************************************************************)
NoResponse == [op |-> "none"]

\* the module-level services of api/ and the objects they create
ServicesConstructed ==
    /\ nem12_file_data = <<>>
    /\ parser_invoices = <<>>
    /\ calc_file_data = <<>>
    /\ engine_invoices = <<>>
    /\ engine_file_data = <<>>
    /\ reconciliations = <<>>
    /\ issued = 0
    /\ response = NoResponse
    /\ runs = <<>>

\* no line-item lists, no invoices, no call of the matcher under way
NoItems == invoiced_items = <<>> /\ calculated_items = <<>> /\ reconciled = <<>>
NoInvoices == parsed_invoice = <<>> /\ calculated_invoice = <<>> /\ summary = <<>>
NoCall ==
    tolerance_percent = 0 /\ pc = "idle" /\ nem12_content = <<>> /\ tasks = <<>>

(***************************************************************************)
(* SpecMatch                                                               *)
(***************************************************************************)
\* Line-item lists of up to MaxItems items.  An item's quantity (and its
\* description) is its position in its list, so that a record shows which
\* item it was built from.
ItemLists(amounts) ==
    UNION { { [k \in 1..n |->
                 [description |-> k, charge_type |-> f[k][1],
                  quantity |-> <<k>>, amount |-> f[k][2]]]
              : f \in [1..n -> MatchChargeTypes \X amounts] }
            : n \in 0..MaxItems }

InitMatch ==
    /\ invoiced_items \in ItemLists(InvoicedAmounts)
    /\ calculated_items \in ItemLists(CalculatedAmounts)
    /\ tolerance_percent \in MatchTolerances
    /\ reconciled = <<>>
    /\ pc = "call"
    /\ nem12_content = <<>>
    /\ tasks = <<>>
    /\ NoInvoices
    /\ ServicesConstructed

ReconcileLineItems ==
    /\ pc = "call"
    /\ reconciled' = reconcile_line_items(invoiced_items, calculated_items,
                                          tolerance_percent)
    /\ pc' = "done"
    /\ UNCHANGED <<invoiced_items, calculated_items, tolerance_percent,
                   nem12_content, tasks>>
    /\ UNCHANGED <<invoiceVars, apiVars, calc_file_data, engineVars, response>>

NextMatch == ReconcileLineItems

SpecMatch == InitMatch /\ [][NextMatch]_vars

(***************************************************************************)
(* SpecBuckets: the matcher on calculated lists one item longer, so that   *)
(* a bucket of two items can follow a paired item of another charge type   *)
(***************************************************************************)
BucketCalculatedAmounts == {0, 4800}

\* calculated lists of MaxItems + 1 items
BucketCalculatedLists ==
    { [k \in 1..(MaxItems + 1) |->
          [description |-> k, charge_type |-> f[k][1],
           quantity |-> <<k>>, amount |-> f[k][2]]]
      : f \in [1..(MaxItems + 1) -> MatchChargeTypes \X BucketCalculatedAmounts] }

InitBuckets ==
    /\ invoiced_items \in ItemLists(InvoicedAmounts)
    /\ calculated_items \in BucketCalculatedLists
    /\ tolerance_percent = 1
    /\ reconciled = <<>>
    /\ pc = "call"
    /\ nem12_content = <<>>
    /\ tasks = <<>>
    /\ NoInvoices
    /\ ServicesConstructed

SpecBuckets == InitBuckets /\ [][NextMatch]_vars

(***************************************************************************)
(* SpecSummary                                                             *)
(***************************************************************************)
\* amounts and totals, in cents, of the invoices drawn
SummaryInvoicedAmounts == {4800, 5000, 6000}
SummaryCalculatedAmounts == {4800}
InvoicedTotals == {0, 5280, 5400, 6000}

\* parsed invoices: any item list, any total
ParsedInvoices ==
    { [invoice_number |-> "INV-1", nmi |-> "N1",
       billing_period_start |-> <<738855>>, billing_period_end |-> <<738885>>,
       line_items |-> items, subtotal |-> SumAmounts(items, 1), gst |-> 0,
       total |-> t]
      : items \in ItemLists(SummaryInvoicedAmounts), t \in InvoicedTotals }

\* calculated invoices: any item list, the totals calculate derives from it
CalculatedInvoices ==
    { calculated_result("N1", 738855, 738885, items)
      : items \in ItemLists(SummaryCalculatedAmounts) }

InitSummary ==
    /\ parsed_invoice \in {<<p>> : p \in ParsedInvoices}
    /\ calculated_invoice \in {<<c>> : c \in CalculatedInvoices}
    /\ tolerance_percent \in MatchTolerances
    /\ summary = <<>>
    /\ pc = "call"
    /\ nem12_content = <<>>
    /\ tasks = <<>>
    /\ NoItems
    /\ ServicesConstructed

Summarise ==
    /\ pc = "call"
    /\ summary' = <<summary_fields(parsed_invoice[1], calculated_invoice[1],
                                   tolerance_percent)>>
    /\ pc' = "done"
    /\ UNCHANGED <<parsed_invoice, calculated_invoice, tolerance_percent,
                   nem12_content, tasks>>
    /\ UNCHANGED <<itemVars, apiVars, calc_file_data, engineVars, response>>

NextSummary == Summarise

SpecSummary == InitSummary /\ [][NextSummary]_vars

(***************************************************************************)
(* NEM12 files drawn                                                       *)
(***************************************************************************)
Row200For(nmi, interval_length) ==
    <<"200", nmi, "E1", "E1", "E1", "N1", "M", "kWh", interval_length>>

Row200(interval_length) == Row200For("N1", interval_length)

\* one weekday: 1.0 kWh at 00:00 and 1.0 kWh at 12:00
ContentWeekday ==
    << Row200("720"), <<"300", "20231201", "1.0", "1.0", "A">>, <<"900">> >>
\* one Saturday: 2.5 kWh and 0.5 kWh
ContentSaturday ==
    << Row200("720"), <<"300", "20231202", "2.5", "0.5", "A">>, <<"900">> >>
\* a meter with no 300 row
ContentNoReadings == << Row200("720"), <<"900">> >>
\* interval length 0
ContentZeroLength ==
    << Row200("0"), <<"300", "20231201", "1.0", "1.0", "A">>, <<"900">> >>
\* ''.strip().split('\n') is ['']
ContentEmpty == << <<"">> >>
\* one channel of interval length 30 and one day of 48 readings of 1.0
ContentFullDay ==
    << Row200("30"), <<"300", "20231201">> \o [i \in 1..48 |-> "1.0"] \o <<"A">>,
       <<"900">> >>

Nem12Contents ==
    {ContentWeekday, ContentSaturday, ContentNoReadings, ContentZeroLength,
     ContentEmpty, ContentFullDay}

FileIds == 1..MaxFiles
TariffCodes == {"EA010", "EA025", "8400", "NOPE"}
\* (billing_start, billing_end) of a calculate call
BillingPeriods ==
    { <<<<>>, <<>>>>, <<<<738855>>, <<738885>>>>, <<<<738855>>, <<>>>>,
      <<<<738855>>, <<738855>>>>, <<<<738858>>, <<738885>>>> }

(***************************************************************************)
(* SpecCalc                                                                *)
(***************************************************************************)
\* process_nem12 on each of the contents drawn
Nem12Processed == [c \in Nem12Contents |-> process_nem12(c)]

InitCalc == NoItems /\ NoInvoices /\ NoCall /\ ServicesConstructed

\* self._nem12_service.process_nem12(file_id, content) of the calculator
CalcProcessNem12 ==
    \E file_id \in FileIds, content \in Nem12Contents :
        LET r == Nem12Processed[content]
        IN  /\ calc_file_data' = IF r.raised THEN calc_file_data
                                 ELSE Put(calc_file_data, file_id, r.data)
            /\ response' = [op |-> "process_nem12",
                            request |-> [file_id |-> file_id],
                            reply |-> IF r.raised THEN Raised("ZeroDivisionError")
                                      ELSE Returned(r.meters)]
            /\ UNCHANGED <<itemVars, invoiceVars, callVars, apiVars, engineVars>>

\* InvoiceCalculator.calculate
Calculate ==
    \E nem12_file_id \in FileIds, network_tariff_code \in TariffCodes,
       period \in BillingPeriods :
        /\ response' = [op |-> "calculate",
                        request |-> [nem12_file_id |-> nem12_file_id,
                                     network_tariff_code |-> network_tariff_code,
                                     billing_start |-> period[1],
                                     billing_end |-> period[2]],
                        reply |-> calculate(calc_file_data, nem12_file_id,
                                            network_tariff_code,
                                            period[1], period[2])]
        /\ UNCHANGED <<itemVars, invoiceVars, callVars, apiVars, calc_file_data,
                       engineVars>>

NextCalc == CalcProcessNem12 \/ Calculate

SpecCalc == InitCalc /\ [][NextCalc]_vars

\* an engine that stores every summary under the same id
run_reconciliation_under_one_id(request) ==
    IF ~request_valid(request)
    THEN /\ response' = [op |-> "run_reconciliation", request |-> request,
                         reply |-> HttpError(422, "RequestValidationError")]
         /\ UNCHANGED <<reconciliations, issued, runs>>
    ELSE LET r == reconcile(engine_invoices, engine_file_data, request, 1)
         IN  /\ r.ok => issued < MaxIds
             /\ response' =
                    [op |-> "run_reconciliation", request |-> request,
                     reply |-> IF r.ok THEN HttpOk(r.value[1])
                               ELSE IF r.error = "TypeError"
                               THEN HttpError(500, "Reconciliation failed")
                               ELSE HttpError(400, r.error)]
             /\ reconciliations' =
                    IF r.ok THEN Put(reconciliations, 1, r.value[1])
                    ELSE reconciliations
             /\ issued' = IF r.ok THEN issued + 1 ELSE issued
             /\ runs' =
                    IF r.ok
                    THEN Append(runs,
                             [request |-> request,
                              invoice |-> engine_invoices[request.invoice_file_id],
                              file |-> engine_file_data[request.nem12_file_id],
                              result |-> r.value[1]])
                    ELSE runs

(***************************************************************************)
(* The /reconciliation endpoints                                           *)
(***************************************************************************)
\* POST /reconciliation/run.  A body ReconciliationRequest rejects never
\* reaches the handler; a ValueError becomes 400, any other exception 500.
run_reconciliation(request) ==
    IF ~request_valid(request)
    THEN /\ response' = [op |-> "run_reconciliation", request |-> request,
                         reply |-> HttpError(422, "RequestValidationError")]
         /\ UNCHANGED <<reconciliations, issued, runs>>
    ELSE LET r == reconcile(engine_invoices, engine_file_data, request,
                            issued + 1)
         IN  /\ r.ok => issued < MaxIds
             /\ response' =
                    [op |-> "run_reconciliation", request |-> request,
                     reply |-> IF r.ok THEN HttpOk(r.value[1])
                               ELSE IF r.error = "TypeError"
                               THEN HttpError(500, "Reconciliation failed")
                               ELSE HttpError(400, r.error)]
             /\ reconciliations' =
                    IF r.ok THEN Put(reconciliations, issued + 1, r.value[1])
                    ELSE reconciliations
             /\ issued' = IF r.ok THEN issued + 1 ELSE issued
             /\ runs' =
                    IF r.ok
                    THEN Append(runs,
                             [request |-> request,
                              invoice |-> engine_invoices[request.invoice_file_id],
                              file |-> engine_file_data[request.nem12_file_id],
                              result |-> r.value[1]])
                    ELSE runs

\* GET /reconciliation/{reconciliation_id}
GetReconciliation ==
    \E reconciliation_id \in 1..MaxIds :
        /\ response' =
               [op |-> "get_reconciliation",
                request |-> [reconciliation_id |-> reconciliation_id],
                reply |-> IF reconciliation_id \in DOMAIN reconciliations
                          THEN HttpOk(reconciliations[reconciliation_id])
                          ELSE HttpError(404, "Reconciliation not found")]
        /\ UNCHANGED <<itemVars, invoiceVars, callVars, apiVars, calc_file_data,
                       engineVars>>

(***************************************************************************)
(* SpecEngine                                                              *)
(***************************************************************************)
EngineContents == {ContentWeekday, ContentSaturday}
EngineRequests ==
    [invoice_file_id : {"inv-1"},
     nem12_file_id : {"nem-1"},
     network_tariff_code : {<<>>, <<"NOPE">>},
     tolerance_percent : {-1, 1, 101}]

InitEngine == NoItems /\ NoInvoices /\ NoCall /\ ServicesConstructed

\* reconciliation_engine._invoice_parser.parse_invoice(file_id, pdf_content)
EngineParseInvoice ==
    /\ engine_invoices' =
           Put(engine_invoices, "inv-1", parse_invoice("pdf").invoice)
    /\ response' = [op |-> "parse_invoice", request |-> [file_id |-> "inv-1"],
                    reply |-> Returned(parse_invoice("pdf"))]
    /\ UNCHANGED <<engine_file_data, reconciliations, issued, runs>>
    /\ UNCHANGED <<itemVars, invoiceVars, callVars, apiVars, calc_file_data>>

\* reconciliation_engine._invoice_calculator._nem12_service
\*     .process_nem12(file_id, content)
EngineProcessNem12 ==
    \E content \in EngineContents :
        LET r == process_nem12(content)
        IN  /\ engine_file_data' = IF r.raised THEN engine_file_data
                                   ELSE Put(engine_file_data, "nem-1", r.data)
            /\ response' = [op |-> "process_nem12",
                            request |-> [file_id |-> "nem-1"],
                            reply |-> IF r.raised THEN Raised("ZeroDivisionError")
                                      ELSE Returned(r.meters)]
            /\ UNCHANGED <<engine_invoices, reconciliations, issued, runs>>
            /\ UNCHANGED <<itemVars, invoiceVars, callVars, apiVars, calc_file_data>>

EngineRunReconciliation ==
    \E request \in EngineRequests :
        /\ run_reconciliation(request)
        /\ UNCHANGED <<engine_invoices, engine_file_data>>
        /\ UNCHANGED <<itemVars, invoiceVars, callVars, apiVars, calc_file_data>>

NextEngine ==
    \/ EngineParseInvoice
    \/ EngineProcessNem12
    \/ EngineRunReconciliation
    \/ GetReconciliation

SpecEngine == InitEngine /\ [][NextEngine]_vars

(***************************************************************************)
(* SpecParallel: two reconcile calls on one engine.  A call can be         *)
(* suspended at each of its awaits (get_invoice; inside calculate,         *)
(* get_consumption_summary and get_tariff_by_code); what it runs between   *)
(* two awaits is one step.                                                 *)
(***************************************************************************)
RunIds == {1, 2}

ParallelRequests ==
    [invoice_file_id : {"inv-1", "inv-9"},
     nem12_file_id : {"nem-1", "nem-2", "nem-3", "nem-9"},
     network_tariff_code : {<<>>},
     tolerance_percent : {1, 10}]

\* the engine's parser after one invoice was parsed, its calculator's
\* NEM12Service after three files were processed
ParallelInvoices == Put(<<>>, "inv-1", parse_invoice("pdf").invoice)
ParallelFileData ==
    Put(Put(Put(<<>>, "nem-1", process_nem12(ContentWeekday).data),
            "nem-2", process_nem12(ContentSaturday).data),
        "nem-3", process_nem12(ContentNoReadings).data)

\* a call that has not run yet.  overlapped records whether the call ever
\* took a step while the other call was suspended at an await.
NewTask(request) ==
    [request |-> request, pc |-> "start", parsed |-> <<>>, summaries |-> <<>>,
     overlapped |-> FALSE, reply |-> <<>>]

InitParallel ==
    /\ tasks \in [RunIds -> {NewTask(request) : request \in ParallelRequests}]
    /\ tolerance_percent = 0
    /\ pc = "idle"
    /\ nem12_content = <<>>
    /\ NoItems
    /\ NoInvoices
    /\ nem12_file_data = <<>>
    /\ parser_invoices = <<>>
    /\ calc_file_data = <<>>
    /\ engine_invoices = ParallelInvoices
    /\ engine_file_data = ParallelFileData
    /\ reconciliations = <<>>
    /\ issued = 0
    /\ response = NoResponse
    /\ runs = <<>>

\* some other call is suspended at an await
OthersSuspended(t) ==
    \E u \in RunIds \ {t} : tasks[u].pc \in {"got_invoice", "got_summaries"}

\* the call ends: it raised or returned reply
EndTask(t, reply) ==
    [tasks EXCEPT ![t].pc = "done", ![t].reply = <<reply>>,
                  ![t].overlapped = @ \/ OthersSuspended(t)]

\* a shared attribute in place of the local: the summaries some call read
summaries_of_any(read, t) ==
    LET have == {u \in DOMAIN read : read[u].summaries # <<>>}
    IN  read[CHOOSE u \in have : \A v \in have : u <= v].summaries

\* the local variable summaries of call t of calculate
summaries_of(read, t) == read[t].summaries

\* parsed = await self._invoice_parser.get_invoice(invoice_file_id), and
\* the ValueError when it is None
AwaitGetInvoice(t) ==
    /\ tasks[t].pc = "start"
    /\ LET id == tasks[t].request.invoice_file_id
       IN  IF id \notin DOMAIN engine_invoices
           THEN LET reply == Raised("ValueError: Parsed invoice not found")
                IN  /\ tasks' = EndTask(t, reply)
                    /\ response' = [op |-> "reconcile",
                                    request |-> tasks[t].request,
                                    reply |-> reply]
           ELSE /\ tasks' = [tasks EXCEPT
                                ![t].pc = "got_invoice",
                                ![t].parsed = <<engine_invoices[id]>>,
                                ![t].overlapped = @ \/ OthersSuspended(t)]
                /\ UNCHANGED response
    /\ UNCHANGED <<tolerance_percent, pc, nem12_content>>
    /\ UNCHANGED <<itemVars, invoiceVars, apiVars, calc_file_data, engineVars>>

\* summaries = await self._nem12_service.get_consumption_summary(
\* nem12_file_id) in calculate, and the ValueError when it is empty
AwaitGetConsumptionSummary(t) ==
    /\ tasks[t].pc = "got_invoice"
    /\ LET summaries == get_consumption_summary(engine_file_data,
                            tasks[t].request.nem12_file_id)
       IN  IF summaries = <<>>
           THEN LET reply ==
                        Raised("ValueError: No consumption data found for file ID")
                IN  /\ tasks' = EndTask(t, reply)
                    /\ response' = [op |-> "reconcile",
                                    request |-> tasks[t].request,
                                    reply |-> reply]
           ELSE /\ tasks' = [tasks EXCEPT
                                ![t].pc = "got_summaries",
                                ![t].summaries = summaries,
                                ![t].overlapped = @ \/ OthersSuspended(t)]
                /\ UNCHANGED response
    /\ UNCHANGED <<tolerance_percent, pc, nem12_content>>
    /\ UNCHANGED <<itemVars, invoiceVars, apiVars, calc_file_data, engineVars>>

\* network_tariff = await self._tariff_fetcher.get_tariff_by_code(...) and
\* all that follows it in calculate and in reconcile: no await is left
AwaitGetTariffAndFinish(t) ==
    /\ tasks[t].pc = "got_summaries"
    /\ LET request == tasks[t].request
           parsed == tasks[t].parsed[1]
           calculated ==
               calculate_from_summaries(
                   summaries_of(tasks, t),
                   get_tariff_by_code(
                       IF request.network_tariff_code \in {<<>>, <<"">>}
                       THEN "EA010" ELSE request.network_tariff_code[1]),
                   parsed.billing_period_start, parsed.billing_period_end)
       IN  IF ~calculated.ok
           THEN /\ tasks' = EndTask(t, calculated)
                /\ response' = [op |-> "reconcile", request |-> request,
                                reply |-> calculated]
                /\ UNCHANGED <<reconciliations, issued, runs>>
           ELSE LET result == result_of(
                                  summary_fields(parsed, calculated.value[1],
                                                 request.tolerance_percent),
                                  issued + 1)
                IN  /\ issued < MaxIds
                    /\ tasks' = EndTask(t, Returned(result))
                    /\ response' = [op |-> "reconcile", request |-> request,
                                    reply |-> Returned(result)]
                    /\ reconciliations' = Put(reconciliations, issued + 1, result)
                    /\ issued' = issued + 1
                    /\ runs' = Append(runs,
                                  [request |-> request,
                                   invoice |-> engine_invoices[request.invoice_file_id],
                                   file |-> engine_file_data[request.nem12_file_id],
                                   result |-> result])
    /\ UNCHANGED <<tolerance_percent, pc, nem12_content>>
    /\ UNCHANGED <<itemVars, invoiceVars, apiVars, calc_file_data>>
    /\ UNCHANGED <<engine_invoices, engine_file_data>>

NextParallel ==
    \E t \in RunIds :
        \/ AwaitGetInvoice(t)
        \/ AwaitGetConsumptionSummary(t)
        \/ AwaitGetTariffAndFinish(t)

SpecParallel == InitParallel /\ [][NextParallel]_vars

(***************************************************************************)
(* Spec: the HTTP endpoints                                                *)
(***************************************************************************)
UploadContents == {ContentWeekday, ContentNoReadings, ContentZeroLength}
Nem12Filenames == {"meter.csv", "meter.pdf"}
InvoiceFilenames == {"bill.PDF", "bill.txt"}
ApiTariffCodes == {"EA025", "NOPE"}
ApiBillingPeriods == { <<<<>>, <<>>>>, <<<<738855>>, <<738885>>>> }
ApiRequests ==
    [invoice_file_id : 1..MaxUploads,
     nem12_file_id : 1..MaxUploads,
     network_tariff_code : {<<>>},
     tolerance_percent : {-1, 1, 101}]

Init == NoItems /\ NoInvoices /\ NoCall /\ ServicesConstructed

\* POST /nem12/upload.  The file is stored by process_nem12 before the
\* response is built: a meter MeterData rejects gives 400 with the file
\* stored.
UploadNem12 ==
    \E filename \in Nem12Filenames, content \in UploadContents :
        IF Extension[filename] \notin {".csv", ".txt", ".nem12"}
        THEN /\ response' = [op |-> "upload_nem12",
                             request |-> [filename |-> filename],
                             reply |-> HttpError(400, "Invalid file type")]
             /\ UNCHANGED <<nem12_file_data, issued>>
             /\ UNCHANGED <<parser_invoices, calc_file_data, engine_invoices,
                            engine_file_data, reconciliations, runs>>
             /\ UNCHANGED <<itemVars, invoiceVars, callVars>>
        ELSE LET file_id == issued + 1
                 r == process_nem12(content)
             IN  /\ issued < MaxUploads
                 /\ issued' = issued + 1
                 /\ nem12_file_data' = IF r.raised THEN nem12_file_data
                                       ELSE Put(nem12_file_data, file_id, r.data)
                 /\ response' =
                        [op |-> "upload_nem12",
                         request |-> [filename |-> filename],
                         reply |->
                             IF r.raised
                                \/ \E k \in DOMAIN r.meters :
                                      ~meter_data_valid(r.meters[k])
                             THEN HttpError(400, "Failed to parse NEM12 file")
                             ELSE HttpOk([file_id |-> file_id,
                                          meters |-> r.meters])]
                 /\ UNCHANGED <<parser_invoices, calc_file_data, engine_invoices,
                                engine_file_data, reconciliations, runs>>
                 /\ UNCHANGED <<itemVars, invoiceVars, callVars>>

\* GET /nem12/{file_id}/summary
GetConsumptionSummary ==
    \E file_id \in 1..MaxUploads :
        LET summaries == get_consumption_summary(nem12_file_data, file_id)
        IN  /\ response' = [op |-> "get_consumption_summary",
                            request |-> [file_id |-> file_id],
                            reply |-> IF summaries = <<>>
                                      THEN HttpError(404, "File not found or not processed")
                                      ELSE HttpOk(summaries)]
            /\ UNCHANGED <<itemVars, invoiceVars, callVars, apiVars,
                           calc_file_data, engineVars>>

\* POST /invoices/upload
UploadInvoice ==
    \E filename \in InvoiceFilenames :
        IF Extension[filename] \notin {".pdf", ".PDF"}
        THEN /\ response' = [op |-> "upload_invoice",
                             request |-> [filename |-> filename],
                             reply |-> HttpError(400, "Invalid file type")]
             /\ UNCHANGED <<parser_invoices, issued>>
             /\ UNCHANGED <<nem12_file_data, calc_file_data, engine_invoices,
                            engine_file_data, reconciliations, runs>>
             /\ UNCHANGED <<itemVars, invoiceVars, callVars>>
        ELSE LET file_id == issued + 1
                 r == parse_invoice("pdf")
             IN  /\ issued < MaxUploads
                 /\ issued' = issued + 1
                 /\ parser_invoices' = Put(parser_invoices, file_id, r.invoice)
                 /\ response' = [op |-> "upload_invoice",
                                 request |-> [filename |-> filename],
                                 reply |-> HttpOk([file_id |-> file_id,
                                                   parsed_invoice |-> r.invoice])]
                 /\ UNCHANGED <<nem12_file_data, calc_file_data, engine_invoices,
                                engine_file_data, reconciliations, runs>>
                 /\ UNCHANGED <<itemVars, invoiceVars, callVars>>

\* POST /invoices/calculate, on the InvoiceCalculator of api/invoices.py
CalculateInvoice ==
    \E nem12_file_id \in 1..MaxUploads, network_tariff_code \in ApiTariffCodes,
       period \in ApiBillingPeriods :
        LET r == calculate(calc_file_data, nem12_file_id, network_tariff_code,
                           period[1], period[2])
        IN  /\ response' =
                   [op |-> "calculate_invoice",
                    request |-> [nem12_file_id |-> nem12_file_id,
                                 network_tariff_code |-> network_tariff_code,
                                 billing_start |-> period[1],
                                 billing_end |-> period[2]],
                    reply |-> IF r.ok THEN HttpOk(r.value[1])
                              ELSE IF r.error = "TypeError"
                              THEN HttpError(500, "Calculation failed")
                              ELSE HttpError(400, r.error)]
            /\ UNCHANGED <<itemVars, invoiceVars, callVars, apiVars,
                           calc_file_data, engineVars>>

RunReconciliation ==
    \E request \in ApiRequests :
        /\ run_reconciliation(request)
        /\ UNCHANGED <<engine_invoices, engine_file_data>>
        /\ UNCHANGED <<itemVars, invoiceVars, callVars, apiVars, calc_file_data>>

Next ==
    \/ UploadNem12
    \/ GetConsumptionSummary
    \/ UploadInvoice
    \/ CalculateInvoice
    \/ RunReconciliation
    \/ GetReconciliation

Spec == Init /\ [][Next]_vars

(***************************************************************************)
(* SpecRow                                                                 *)
(***************************************************************************)
\* interval lengths of the 200 row whose meter the 300 row is read for
RowIntervalLengths == {"0", "480", "720", "1440"}
\* date fields: a Friday, and a string strptime rejects
RowDates == {"20231201", "2023-12-01"}
\* reading fields: two floats, and two strings float() rejects
RowValues == {"1.0", "0.5", "x", ""}

\* the 300 rows drawn: no date field, or a date and up to MaxRowValues
\* reading fields
Rows300 ==
    { <<"300">> } \cup
    UNION { { <<"300", d>> \o v : d \in RowDates, v \in [1..n -> RowValues] }
            : n \in 0..MaxRowValues }

InitRow ==
    /\ nem12_content \in { <<Row200(il), row>> :
                              il \in RowIntervalLengths, row \in Rows300 }
    /\ tolerance_percent = 0
    /\ tasks = <<>>
    /\ pc = "call"
    /\ NoItems
    /\ NoInvoices
    /\ ServicesConstructed

\* self._parse_300_record(fields, current_meter), current_meter fresh from
\* _parse_200_record
ParseRow ==
    /\ pc = "call"
    /\ LET meter == parse_200_record(nem12_content[1])
            r == parse_300_record(nem12_content[2], meter)
       IN  response' = [op |-> "parse_300_record",
                        request |-> [fields |-> nem12_content[2], meter |-> meter],
                        reply |-> r]
    /\ pc' = "done"
    /\ UNCHANGED <<tolerance_percent, nem12_content, tasks>>
    /\ UNCHANGED <<itemVars, invoiceVars, apiVars, calc_file_data, engineVars>>

NextRow == ParseRow

SpecRow == InitRow /\ [][NextRow]_vars

(***************************************************************************)
(* SpecNem12                                                               *)
(***************************************************************************)
\* the rows a file is made of: two channels, three days of readings (a
\* Friday, a Saturday, a Monday with a field float() rejects), a day whose
\* date strptime rejects, and the terminator
FileRows ==
    { Row200For("N1", "720"), Row200For("N2", "720"),
      <<"300", "20231201", "1.0", "1.0", "A">>,
      <<"300", "20231202", "2.5", "0.5", "A">>,
      <<"300", "20231204", "0.5", "x">>,
      <<"300", "2023-12-01", "1.0", "1.0", "A">>,
      <<"900">> }

\* the files drawn: the empty string, or 1 to MaxRows rows
Files ==
    {ContentEmpty} \cup UNION { [1..n -> FileRows] : n \in 1..MaxRows }

\* the file id the caller passes
Nem12FileId == "nem-1"

InitNem12 ==
    /\ nem12_content \in Files
    /\ tolerance_percent = 0
    /\ tasks = <<>>
    /\ pc = "call"
    /\ NoItems
    /\ NoInvoices
    /\ ServicesConstructed

\* NEM12Service.process_nem12(file_id, content)
ProcessNem12 ==
    /\ pc = "call"
    /\ LET r == process_nem12(nem12_content)
       IN  /\ nem12_file_data' = IF r.raised THEN nem12_file_data
                                 ELSE Put(nem12_file_data, Nem12FileId, r.data)
           /\ response' = [op |-> "process_nem12",
                           request |-> [file_id |-> Nem12FileId],
                           reply |-> IF r.raised THEN Raised("ZeroDivisionError")
                                     ELSE Returned(r.meters)]
    /\ pc' = "processed"
    /\ UNCHANGED <<tolerance_percent, nem12_content, tasks, parser_invoices>>
    /\ UNCHANGED <<itemVars, invoiceVars, calc_file_data, engineVars>>

\* NEM12Service.get_consumption_summary(file_id)
SummariseNem12 ==
    /\ pc = "processed"
    /\ response' = [op |-> "get_consumption_summary",
                    request |-> [file_id |-> Nem12FileId],
                    reply |-> Returned(get_consumption_summary(nem12_file_data,
                                                               Nem12FileId))]
    /\ pc' = "done"
    /\ UNCHANGED <<tolerance_percent, nem12_content, tasks>>
    /\ UNCHANGED <<itemVars, invoiceVars, apiVars, calc_file_data, engineVars>>

NextNem12 == ProcessNem12 \/ SummariseNem12

SpecNem12 == InitNem12 /\ [][NextNem12]_vars

(***************************************************************************)
(* SpecIngest: process_nem12 then get_consumption_summary on files of      *)
(* irregular rows and on files of one day of hourly readings               *)
(***************************************************************************)
MaxEdgeRows == 3

\* irregular rows: channel records of interval length 0 and 7, a channel
\* record of one field, a day of readings, the terminator, a blank line and
\* a line of no record type
EdgeRows ==
    { Row200("0"), Row200("7"), <<"200">>,
      <<"300", "20231201", "1.0", "1.0", "A">>,
      <<"900">>, <<"">>, <<"garbage">> }

EdgeFiles == UNION { [1..n -> EdgeRows] : n \in 1..MaxEdgeRows }

\* one channel and one day of 24 readings of 1.0 kWh but for one of
\* 2.5 kWh: interval lengths of one hour and of seven hours, a Friday, a
\* Saturday, a Sunday and a Monday
HourFiles ==
    { << Row200(il),
         <<"300", d>> \o [i \in 1..24 |-> IF i = p THEN "2.5" ELSE "1.0"]
                     \o <<"A">>,
         <<"900">> >> :
      il \in {"60", "420"},
      d \in {"20231201", "20231202", "20231203", "20231204"},
      p \in 1..24 }

InitIngest ==
    /\ nem12_content \in EdgeFiles \cup HourFiles
    /\ tolerance_percent = 0
    /\ tasks = <<>>
    /\ pc = "call"
    /\ NoItems
    /\ NoInvoices
    /\ ServicesConstructed

SpecIngest == InitIngest /\ [][NextNem12]_vars

(***************************************************************************)
(* Claims on _reconcile_line_items (SpecMatch)                             *)
(***************************************************************************)
PairedStatuses == {"match", "minor", "significant"}

\* the records built from calculated item k, from invoiced item i
RecordsOfCalculated(k) ==
    {n \in DOMAIN reconciled : reconciled[n].calculated_quantity = <<k>>}
RecordsOfInvoiced(i) ==
    {n \in DOMAIN reconciled : reconciled[n].invoiced_quantity = <<i>>}

\* a record that pairs an invoiced item with a calculated item
IsPair(r) == r.invoiced_quantity # <<>> /\ r.calculated_quantity # <<>>

\* C1: after line-item reconciliation every calculated item appears in
\* exactly one record, either paired with one invoiced item or alone as a
\* missing-invoiced record; none is dropped or used twice.
C1_CalculatedInExactlyOneRecord ==
    pc = "done" =>
        \A k \in 1..Len(calculated_items) :
            /\ Cardinality(RecordsOfCalculated(k)) = 1
            /\ \A n \in RecordsOfCalculated(k) :
                  \/ IsPair(reconciled[n]) /\ reconciled[n].status \in PairedStatuses
                  \/ /\ reconciled[n].invoiced_quantity = <<>>
                     /\ reconciled[n].status = "missing_invoiced"

PairPctAtMost(r, bound) ==
    IF r.calculated_amount > 0
    THEN Abs(r.invoiced_amount - r.calculated_amount) * 100
            <= bound * r.calculated_amount
    ELSE (IF r.invoiced_amount # r.calculated_amount THEN 100 ELSE 0) <= bound

NearestHundredth(p, num, den) ==
    Abs(p * den - 100 * num) * 2 <= Abs(den)

\* C5 as stated: the percentage difference of a pair is
\* |invoiced - calculated| / calculated * 100 whenever the calculated
\* amount is not 0, and 100 (amounts differ) or 0 (equal) when it is 0.
C5_PctRelativeToNonZeroCalculated ==
    pc = "done" =>
        \A n \in DOMAIN reconciled :
            IsPair(reconciled[n]) =>
                LET r == reconciled[n]
                    p == r.percentage_difference[1]
                IN  IF r.calculated_amount # 0
                    THEN NearestHundredth(p,
                             Abs(r.invoiced_amount - r.calculated_amount) * 100,
                             r.calculated_amount)
                    ELSE p = IF r.invoiced_amount # r.calculated_amount
                             THEN 10000 ELSE 0

\* C5 as amended: the recorded percentage difference of a pair is
\* |invoiced - calculated| / calculated * 100, to two places, whenever the
\* calculated amount is above 0; when it is 0 or below, it is 100 if the
\* amounts differ and 0 if they are equal.
C5_PctRelativeToPositiveCalculated ==
    pc = "done" =>
        \A n \in DOMAIN reconciled :
            IsPair(reconciled[n]) =>
                LET r == reconciled[n]
                    p == r.percentage_difference[1]
                IN  IF r.calculated_amount > 0
                    THEN NearestHundredth(p,
                             Abs(r.invoiced_amount - r.calculated_amount) * 100,
                             r.calculated_amount)
                    ELSE p = IF r.invoiced_amount # r.calculated_amount
                             THEN 10000 ELSE 0

C5_Witness ==
    /\ pc = "done"
    /\ \E n \in DOMAIN reconciled :
          /\ IsPair(reconciled[n])
          /\ reconciled[n].calculated_amount < 0
          /\ reconciled[n].percentage_difference = <<10000>>
    /\ \E n \in DOMAIN reconciled :
          /\ IsPair(reconciled[n])
          /\ reconciled[n].calculated_amount = 4800
          /\ reconciled[n].invoiced_amount = 5000
          /\ reconciled[n].percentage_difference = <<417>>

\* C6: an invoiced item with no calculated counterpart yields a record of
\* status MISSING_CALCULATED whose amount difference is the invoiced
\* amount; a calculated item with no invoiced counterpart yields a record
\* of status MISSING_INVOICED whose amount difference is minus the
\* calculated amount.
C6_UnmatchedItemsYieldMissingRecords ==
    pc = "done" =>
        /\ \A i \in 1..Len(invoiced_items) :
              (\A n \in RecordsOfInvoiced(i) : ~IsPair(reconciled[n])) =>
                  \E n \in RecordsOfInvoiced(i) :
                      /\ reconciled[n].status = "missing_calculated"
                      /\ reconciled[n].amount_difference = invoiced_items[i].amount
        /\ \A k \in 1..Len(calculated_items) :
              (\A n \in RecordsOfCalculated(k) : ~IsPair(reconciled[n])) =>
                  \E n \in RecordsOfCalculated(k) :
                      /\ reconciled[n].status = "missing_invoiced"
                      /\ reconciled[n].amount_difference = -calculated_items[k].amount

(***************************************************************************)
(* Claims on the rollup of reconcile (SpecSummary)                         *)
(***************************************************************************)
\* whether the total percentage difference of summary s is above bound
\* percent: |invoiced total - calculated total| / calculated total * 100,
\* and with a calculated total of 0, 100 when the totals differ, else 0
TotalPctAbove(s, bound) ==
    IF s.calculated_total > 0
    THEN Abs(s.invoiced_total - s.calculated_total) * 100
            > bound * s.calculated_total
    ELSE (IF s.invoiced_total # s.calculated_total THEN 100 ELSE 0) > bound

\* whether summary s has a record with a status among statuses
AnyRecord(s, statuses) ==
    \E n \in DOMAIN s.line_items : s.line_items[n].status \in statuses

\* C7: the overall status is SIGNIFICANT if any record is SIGNIFICANT or
\* the total percentage difference exceeds 5; otherwise MINOR if any
\* record is MINOR, any record is missing (either kind), or the total
\* percentage difference exceeds the tolerance; otherwise MATCH.
C7_OverallStatusRollup ==
    pc = "done" =>
        LET s == summary[1]
        IN  /\ s.invoiced_total = parsed_invoice[1].total
            /\ s.calculated_total = calculated_invoice[1].total
            /\ s.overall_status =
                  IF AnyRecord(s, {"significant"}) \/ TotalPctAbove(s, 5)
                  THEN "significant"
                  ELSE IF \/ AnyRecord(s, {"minor"})
                          \/ AnyRecord(s, {"missing_invoiced", "missing_calculated"})
                          \/ TotalPctAbove(s, tolerance_percent)
                  THEN "minor"
                  ELSE "match"

\* A summary whose records all match and which is MINOR through its totals
\* alone.
C7_Witness ==
    /\ pc = "done"
    /\ summary[1].overall_status = "minor"
    /\ Len(summary[1].line_items) >= 1
    /\ \A n \in DOMAIN summary[1].line_items :
          summary[1].line_items[n].status = "match"
    /\ TotalPctAbove(summary[1], tolerance_percent)
    /\ ~TotalPctAbove(summary[1], 5)

(***************************************************************************)
(* Claims on the reconciliation endpoint and the engine (SpecEngine)       *)
(***************************************************************************)
\* runs a and b had identical inputs: the same request, and the same
\* parsed invoice and NEM12 file behind its two file ids
SameInputs(a, b) ==
    /\ runs[a].request = runs[b].request
    /\ runs[a].invoice = runs[b].invoice
    /\ runs[a].file = runs[b].file

\* a result without its generated id
WithoutId(result) ==
    [k \in DOMAIN result \ {"reconciliation_id"} |-> result[k]]

OutOfRange(tolerance) == tolerance < 0 \/ tolerance > 100

\* C9: a reconciliation requested with a tolerance below 0 or above 100 is
\* rejected with a validation error; it produces no summary and none is
\* stored: every stored summary is the result of a run whose tolerance was
\* in range.
C9_OutOfRangeToleranceRejected ==
    /\ (/\ response.op = "run_reconciliation"
        /\ OutOfRange(response.request.tolerance_percent)) =>
           /\ response.reply.status = 422
           /\ response.reply.detail = "RequestValidationError"
           /\ response.reply.body = <<>>
    /\ \A k \in DOMAIN runs : ~OutOfRange(runs[k].request.tolerance_percent)
    /\ \A id \in DOMAIN reconciliations :
          \E k \in DOMAIN runs :
              /\ runs[k].result = reconciliations[id]
              /\ runs[k].result.reconciliation_id = id

\* A request rejected for its tolerance alone: its invoice is parsed and
\* its NEM12 file holds consumption data.
C9_Witness ==
    /\ response.op = "run_reconciliation"
    /\ response.request.tolerance_percent = 101
    /\ response.reply.status = 422
    /\ response.request.invoice_file_id \in DOMAIN engine_invoices
    /\ get_consumption_summary(engine_file_data,
                               response.request.nem12_file_id) # <<>>
    /\ reconciliations = <<>>

(***************************************************************************)
(* Claims on the HTTP endpoints (Spec)                                     *)
(***************************************************************************)
NoConsumptionData == "ValueError: No consumption data found for file ID"

\* the upload endpoint has stored consumption data under file_id
UploadedWithData(file_id) ==
    get_consumption_summary(nem12_file_data, file_id) # <<>>

\* C3: once a NEM12 file has been uploaded and processed under a file id,
\* an invoice calculation, and a reconciliation, invoked with that file id
\* finds the file's consumption data: it does not fail with 'No
\* consumption data found'.
C3_UploadedFileFoundLater ==
    /\ (/\ response.op = "calculate_invoice"
        /\ UploadedWithData(response.request.nem12_file_id)) =>
           response.reply.detail # NoConsumptionData
    /\ (/\ response.op = "run_reconciliation"
        /\ UploadedWithData(response.request.nem12_file_id)) =>
           response.reply.detail # NoConsumptionData

(***************************************************************************)
(* Claims on InvoiceCalculator.calculate (SpecCalc)                        *)
(***************************************************************************)
\* the catalog's tariffs of a code
CatalogTariffs(tariff_code) ==
    {n \in DOMAIN sample_tariffs : sample_tariffs[n].tariff_code = tariff_code}

\* C10: for a tariff found in the catalog and any billing period, the
\* calculated invoice has one supply item, whose amount is the tariff's
\* daily supply charge times the inclusive day count of the billing
\* period, rounded half up to the cent.
C10_SupplyAmountFromTariffDailyCharge ==
    (/\ response.op = "calculate"
     /\ response.reply.ok
     /\ CatalogTariffs(response.request.network_tariff_code) # {}) =>
        LET invoice == response.reply.value[1]
            billing_days ==
                invoice.billing_period_end - invoice.billing_period_start + 1
            supply == SelectSeq(invoice.line_items,
                                LAMBDA item : item.charge_type = "supply")
        IN  /\ Len(supply) = 1
            /\ \E n \in CatalogTariffs(response.request.network_tariff_code) :
                  supply[1].amount =
                      RoundHalfUp(sample_tariffs[n].daily_supply_charge_cents
                                      * billing_days, 100)

\* the aggregate calculate reads: that of the first meter of the file
ConsumptionOf(file_id) == get_consumption_summary(calc_file_data, file_id)[1]

\* the items of a charge type in an invoice
ItemsOfType(invoice, charge_type) ==
    SelectSeq(invoice.line_items, LAMBDA item : item.charge_type = charge_type)

\* a calculate call that returned an invoice
CalculateReturned == response.op = "calculate" /\ response.reply.ok

\* v is num/den rounded half up to the nearest integer (den > 0)
IsHalfUp(v, num, den) ==
    IF num >= 0
    THEN 2 * den * v <= 2 * num + den /\ 2 * num + den < 2 * den * (v + 1)
    ELSE 2 * den * (-v) <= 2 * (-num) + den /\ 2 * (-num) + den < 2 * den * (1 - v)

\* C11: for a flat tariff of the catalog, the calculated invoice has exactly
\* one usage item, whose amount is the file's total consumption times the
\* tariff's own flat usage rate, rounded half up to the cent.
C11_FlatUsageAtTariffRate ==
    (/\ CalculateReturned
     /\ CatalogTariffs(response.request.network_tariff_code) # {}
     /\ \A n \in CatalogTariffs(response.request.network_tariff_code) :
            sample_tariffs[n].time_periods = <<>>) =>
        LET usage == ItemsOfType(response.reply.value[1], "usage")
            total_kwh == ConsumptionOf(response.request.nem12_file_id).total_kwh
        IN  /\ Len(usage) = 1
            /\ \E n \in CatalogTariffs(response.request.network_tariff_code) :
                  IsHalfUp(usage[1].amount,
                           total_kwh * sample_tariffs[n].usage_rate_cents_per_kwh[1],
                           200)

\* the rate the claim prices a bucket at: that of the first period of the
\* tariff named like the bucket, whatever the case of the letters, else
\* the default of the bucket (peak 35, off-peak 18, else 25 cents/kWh)
BucketRate(tariff, bucket) ==
    LET named == {k \in DOMAIN tariff.time_periods :
                      Lower[tariff.time_periods[k].name] = Lower[bucket]}
    IN  IF named # {}
        THEN tariff.time_periods[CHOOSE k \in named : \A m \in named : k <= m]
                 .rate_cents_per_kwh
        ELSE IF bucket = "peak" THEN 3500
        ELSE IF bucket = "off_peak" THEN 1800
        ELSE 2500

\* some usage item charges half_kwh at the rate of the bucket
BucketCharged(usage, tariff, bucket, half_kwh) ==
    \E k \in DOMAIN usage :
        /\ usage[k].quantity = <<half_kwh>>
        /\ IsHalfUp(usage[k].amount, half_kwh * BucketRate(tariff, bucket), 200)

\* C12: for a time-of-use tariff of the catalog, the calculated invoice has
\* one usage item per non-zero bucket of the aggregate (peak, off-peak),
\* each priced at the rate of the tariff's period of that name or at the
\* default rate, and never the single flat usage item.
C12_TouUsagePerBucket ==
    (/\ CalculateReturned
     /\ CatalogTariffs(response.request.network_tariff_code) # {}
     /\ \A n \in CatalogTariffs(response.request.network_tariff_code) :
            sample_tariffs[n].time_periods # <<>>) =>
        LET usage == ItemsOfType(response.reply.value[1], "usage")
            consumption == ConsumptionOf(response.request.nem12_file_id)
            buckets == (IF consumption.peak_kwh # 0 THEN 1 ELSE 0)
                           + (IF consumption.off_peak_kwh # 0 THEN 1 ELSE 0)
        IN  /\ Len(usage) = buckets
            /\ \A k \in DOMAIN usage : usage[k].description # "Energy Usage"
            /\ \E n \in CatalogTariffs(response.request.network_tariff_code) :
                  /\ consumption.peak_kwh # 0 =>
                        BucketCharged(usage, sample_tariffs[n], "peak",
                                      consumption.peak_kwh)
                  /\ consumption.off_peak_kwh # 0 =>
                        BucketCharged(usage, sample_tariffs[n], "off_peak",
                                      consumption.off_peak_kwh)

\* C13: in every calculated invoice the subtotal is the sum of the rounded
\* item amounts, the tax is 10% of the subtotal rounded half up to the cent,
\* the total is subtotal plus tax, and exactly one item is of charge type
\* network, at 8 cents/kWh times the total consumption.
C13_TotalsAndNetworkItem ==
    CalculateReturned =>
        LET invoice == response.reply.value[1]
            network == ItemsOfType(invoice, "network")
            total_kwh == ConsumptionOf(response.request.nem12_file_id).total_kwh
        IN  /\ invoice.subtotal = SumAmounts(invoice.line_items, 1)
            /\ IsHalfUp(invoice.gst, invoice.subtotal * 10, 100)
            /\ invoice.total = invoice.subtotal + invoice.gst
            /\ Len(network) = 1
            /\ network[1].quantity = <<total_kwh>>
            /\ IsHalfUp(network[1].amount, total_kwh * 800, 200)

\* a calculated invoice with a supply, a usage and a network item, whose
\* tax is not a whole number of cents before rounding
C13_Witness ==
    /\ CalculateReturned
    /\ Len(response.reply.value[1].line_items) = 3
    /\ ConsumptionOf(response.request.nem12_file_id).total_kwh > 0
    /\ (response.reply.value[1].subtotal * 10) % 100 >= 50
    /\ response.reply.value[1].total > response.reply.value[1].subtotal

\* the tariff of the scenario, as a fetcher's catalog holds it: flat rate
\* 20 cents/kWh, supply 100 cents/day
ScenarioTariffs == << Tariff("ausgrid", "FLAT20", "flat", 10000, <<2000>>, <<>>) >>

\* the file of the scenario: one channel of interval length 30 and one day
\* of 48 readings of 1.0
IsScenarioFile(data) ==
    /\ Len(data.meters) = 1
    /\ data.meters[1].interval_length = 30
    /\ LET intervals == data.intervals[data.meters[1].nmi]
       IN  /\ Len(intervals) = 48
           /\ \A k \in 1..48 :
                 /\ intervals[k].value = 2
                 /\ intervals[k].interval = k
                 /\ intervals[k].date = intervals[1].date

\* C14: the file of the scenario has total consumption 48.0, and
\* calculating it with the tariff of the scenario over a billing period of
\* one day gives usage 9.60, supply 1.00, subtotal 10.60, tax 1.06 and
\* total 11.66.
C14_ScenarioAmounts ==
    \A file_id \in DOMAIN calc_file_data :
        IsScenarioFile(calc_file_data[file_id]) =>
            LET day == calc_file_data[file_id].meters[1].start_date
                r == calculate_with_tariff(calc_file_data, file_id,
                         lookup_tariff(ScenarioTariffs, "FLAT20"), day, day)
                invoice == r.value[1]
                usage == ItemsOfType(invoice, "usage")
                supply == ItemsOfType(invoice, "supply")
            IN  /\ ConsumptionOf(file_id).total_kwh = 96
                /\ r.ok
                /\ Len(usage) = 1 /\ usage[1].amount = 960
                /\ Len(supply) = 1 /\ supply[1].amount = 100
                /\ invoice.subtotal = 1060
                /\ invoice.gst = 106
                /\ invoice.total = 1166

\* the readings of the file's first meter dated inside a billing period
ReadingsInPeriod(file_id, period_start, period_end) ==
    LET data == calc_file_data[file_id]
        nmi == data.meters[1].nmi
    IN  SelectSeq(IF nmi \in DOMAIN data.intervals THEN data.intervals[nmi]
                  ELSE <<>>,
                  LAMBDA x : period_start <= x.date /\ x.date <= period_end)

\* a calculate call for a billing period, on a file that holds a meter
CalculateForPeriod ==
    /\ response.op = "calculate"
    /\ response.request.billing_start # <<>>
    /\ response.request.billing_end # <<>>
    /\ response.request.nem12_file_id \in DOMAIN calc_file_data
    /\ calc_file_data[response.request.nem12_file_id].meters # <<>>

\* C15: calculate raises, and returns no invoice, when the file has no
\* reading dated inside the billing period asked for; the consumption it
\* charges is that of the readings dated inside the period.
C15_NoReadingsInPeriodFails ==
    CalculateForPeriod =>
        LET inside == ReadingsInPeriod(response.request.nem12_file_id,
                                       response.request.billing_start[1],
                                       response.request.billing_end[1])
        IN  /\ inside = <<>> => ~response.reply.ok
            /\ response.reply.ok =>
                  \A k \in DOMAIN response.reply.value[1].line_items :
                      LET item == response.reply.value[1].line_items[k]
                      IN  item.charge_type = "network" =>
                              item.quantity = <<SumValues(inside, 1, Len(inside))>>

\* C16: a calculate call whose tariff code no tariff of the catalog has
\* raises instead of returning an invoice.
C16_UnknownTariffCodeFails ==
    (/\ response.op = "calculate"
     /\ CatalogTariffs(response.request.network_tariff_code) = {}) =>
        ~response.reply.ok

(***************************************************************************)
(* Claims on NEM12Service._parse_300_record (SpecRow)                      *)
(***************************************************************************)
\* a 300 row read for a meter whose interval length is at least 1, the row
\* dated
RowIngested ==
    /\ pc = "done"
    /\ response.op = "parse_300_record"
    /\ response.request.meter.interval_length >= 1
    /\ Len(response.request.fields) > 1
    /\ response.request.fields[2] \in DOMAIN DateValue

\* the positions n of the readings of the row that the day has room for
\* and whose field parses as a number
ReadablePositions(fields, interval_length) ==
    {n \in 1..(Len(fields) - 2) :
        n * interval_length <= 1440 /\ fields[2 + n] \in DOMAIN FloatValue}

\* C17: a 300 row read for a channel stores at most 1440 / interval_length
\* readings, each with an interval index from 1 to 1440 / interval_length;
\* a field that does not parse as a number removes that one reading only:
\* the call does not raise and every other reading of the day is stored,
\* in order, with its own value.
C17_RowReadingsBoundedAndMalformedSkipped ==
    RowIngested =>
        LET fields == response.request.fields
            interval_length == response.request.meter.interval_length
            intervals == response.reply.intervals
        IN  /\ ~response.reply.raised
            /\ Len(intervals) * interval_length <= 1440
            /\ \A k \in DOMAIN intervals :
                  /\ intervals[k].interval >= 1
                  /\ intervals[k].interval * interval_length <= 1440
                  /\ intervals[k].value = FloatValue[fields[2 + intervals[k].interval]]
            /\ \A k \in DOMAIN intervals : \A m \in DOMAIN intervals :
                  k < m => intervals[k].interval < intervals[m].interval
            /\ {intervals[k].interval : k \in DOMAIN intervals} =
                  ReadablePositions(fields, interval_length)

\* a row whose second reading does not parse and whose first and third are
\* stored
C17_Witness ==
    /\ RowIngested
    /\ Len(response.request.fields) = 5
    /\ response.request.fields[4] \notin DOMAIN FloatValue
    /\ Len(response.reply.intervals) = 2
    /\ response.reply.intervals[2].interval = 3

(***************************************************************************)
(* Claims on NEM12Service.process_nem12 and get_consumption_summary        *)
(* (SpecNem12)                                                             *)
(***************************************************************************)
\* the 200 rows of the file before row k
ChannelRowsBefore(k) == {j \in 1..(k - 1) : nem12_content[j][1] = "200"}

\* the 200 row whose channel is open at row k
ContextOf(k) ==
    CHOOSE j \in ChannelRowsBefore(k) : \A m \in ChannelRowsBefore(k) : m <= j

\* the rows that finalize a channel, in file order: a 200 or a 900 row
\* with a channel open
FinalizingRows ==
    SelectSeq([k \in 1..Len(nem12_content) |-> k],
              LAMBDA k : /\ nem12_content[k][1] \in {"200", "900"}
                         /\ ChannelRowsBefore(k) # {})

\* the dated 300 rows read while the channel opened by row j is open
DayBlocksOf(j) ==
    {k \in (j + 1)..Len(nem12_content) :
        /\ nem12_content[k][1] = "300"
        /\ ContextOf(k) = j
        /\ Len(nem12_content[k]) > 1
        /\ nem12_content[k][2] \in DOMAIN DateValue}

DateOfRow(k) == DateValue[nem12_content[k][2]]

\* C18: the date range of a channel is the least and the greatest date of
\* the day-blocks read for it, in whatever order the rows come.
C18_DateRangeIsMinMaxOfDayBlocks ==
    (pc = "processed" /\ response.op = "process_nem12") =>
        /\ response.reply.ok
        /\ Len(response.reply.value[1]) = Len(FinalizingRows)
        /\ \A n \in DOMAIN response.reply.value[1] :
              LET meter == response.reply.value[1][n]
                  blocks == DayBlocksOf(ContextOf(FinalizingRows[n]))
              IN  IF blocks = {}
                  THEN meter.start_date = <<>> /\ meter.end_date = <<>>
                  ELSE /\ \E k \in blocks :
                             /\ meter.start_date = <<DateOfRow(k)>>
                             /\ \A m \in blocks : DateOfRow(k) <= DateOfRow(m)
                       /\ \E k \in blocks :
                             /\ meter.end_date = <<DateOfRow(k)>>
                             /\ \A m \in blocks : DateOfRow(m) <= DateOfRow(k)

\* a channel whose later day-block is dated before its earlier one
C18_Witness ==
    /\ pc = "processed"
    /\ response.op = "process_nem12"
    /\ \E n \in DOMAIN response.reply.value[1] :
          /\ response.reply.value[1][n].start_date # response.reply.value[1][n].end_date
          /\ \E k \in DayBlocksOf(ContextOf(FinalizingRows[n])) :
             \E m \in DayBlocksOf(ContextOf(FinalizingRows[n])) :
                 k < m /\ DateOfRow(m) < DateOfRow(k)

\* the aggregates get_consumption_summary returned
SummariesReturned == response.reply.value[1]

\* C19: in the aggregate of every channel of a file, peak consumption plus
\* off-peak consumption is the total consumption.
C19_BucketsSumToTotal ==
    (pc = "done" /\ response.op = "get_consumption_summary") =>
        \A n \in DOMAIN SummariesReturned :
            SummariesReturned[n].peak_kwh + SummariesReturned[n].off_peak_kwh
                = SummariesReturned[n].total_kwh

\* the readings of the day-blocks read while the channel opened by row j is
\* open, in file order
RECURSIVE ReadingsOf(_, _)
ReadingsOf(j, k) ==
    IF k > Len(nem12_content) THEN <<>>
    ELSE (IF k \in DayBlocksOf(j)
          THEN parse_300_record(nem12_content[k],
                                parse_200_record(nem12_content[j])).intervals
          ELSE <<>>) \o ReadingsOf(j, k + 1)

\* C20: the readings stored for a finalized channel are those read while
\* that channel was open, whatever channel records follow, and the
\* channel's aggregate is that of those readings.
C20_ChannelsShareNoReadings ==
    (/\ pc = "done"
     /\ response.op = "get_consumption_summary"
     /\ Nem12FileId \in DOMAIN nem12_file_data) =>
        LET data == nem12_file_data[Nem12FileId]
        IN  \A n \in DOMAIN data.meters :
                LET own == ReadingsOf(ContextOf(FinalizingRows[n]), 1)
                    split == peak_off_peak(own, data.meters[n].interval_length)
                IN  /\ data.intervals[data.meters[n].nmi] = own
                    /\ SummariesReturned[n].peak_kwh = split[1]
                    /\ SummariesReturned[n].off_peak_kwh = split[2]
                    /\ SummariesReturned[n].total_kwh = SumValues(own, 1, Len(own))

(***************************************************************************)
(* Claims on the rows process_nem12 accepts (SpecIngest, SpecNem12)        *)
(***************************************************************************)
\* no row of the content is a channel record, a day of readings or a
\* terminator
Unreadable(content) ==
    \A k \in 1..Len(content) : content[k][1] \notin {"200", "300", "900"}

\* what process_nem12 stores for a file of no channel
EmptyFile == [meters |-> <<>>, intervals |-> <<>>]

\* C21 (as the code and its test have it): ingesting content in which no
\* row is recognized, the empty content among them, raises nothing: the
\* list returned is empty and an entry of no channel and no reading is
\* stored under the file id.
C21_UnreadableContentStoredEmpty ==
    (/\ pc = "processed"
     /\ response.op = "process_nem12"
     /\ Unreadable(nem12_content)) =>
        /\ response.reply = Returned(<<>>)
        /\ Nem12FileId \in DOMAIN nem12_file_data
        /\ nem12_file_data[Nem12FileId] = EmptyFile

\* C21 (as stated): ingesting content in which no row is recognized fails
\* with an error.
C21_UnreadableContentFails ==
    (/\ pc = "processed"
     /\ response.op = "process_nem12"
     /\ Unreadable(nem12_content)) =>
        ~response.reply.ok

\* the empty content has been ingested
C21_Witness ==
    /\ pc = "processed"
    /\ response.op = "process_nem12"
    /\ nem12_content = ContentEmpty
    /\ response.reply.ok
    /\ nem12_file_data[Nem12FileId] = EmptyFile

\* C22: ingesting content with no channel record returns the empty list of
\* channels and raises nothing, whatever other rows the content holds.
C22_NoChannelRecordReturnsEmptyList ==
    (/\ pc = "processed"
     /\ response.op = "process_nem12"
     /\ \A k \in 1..Len(nem12_content) : nem12_content[k][1] # "200") =>
        /\ response.reply.ok
        /\ response.reply.value = << <<>> >>

\* days of readings and a terminator with no channel record before them
C22_Witness ==
    /\ pc = "processed"
    /\ response.op = "process_nem12"
    /\ response.reply.ok
    /\ response.reply.value = << <<>> >>
    /\ \A k \in 1..Len(nem12_content) : nem12_content[k][1] # "200"
    /\ \E k \in 1..Len(nem12_content) : nem12_content[k][1] = "300"
    /\ \E k \in 1..Len(nem12_content) : nem12_content[k][1] = "900"

\* C23 (as stated): ingest never fails because of the content of a row: a
\* row it cannot read is skipped.
C23_IngestNeverFailsOnARow ==
    (pc = "processed" /\ response.op = "process_nem12") =>
        response.reply.ok

\* C24 (as stated): every channel returned by a successful ingest has an
\* interval length that divides the 1440 minutes of a day and is one of 5,
\* 15 and 30.
C24_IntervalLengthOneOf5_15_30 ==
    (/\ pc = "processed"
     /\ response.op = "process_nem12"
     /\ response.reply.ok) =>
        \A n \in DOMAIN response.reply.value[1] :
            response.reply.value[1][n].interval_length
                \in {m \in {5, 15, 30} : 1440 % m = 0}

(***************************************************************************)
(* Claims on the peak window of get_consumption_summary (SpecIngest)       *)
(***************************************************************************)
\* the dates of DateValue that fall on Monday to Friday: Friday 1 and
\* Monday 4 December 2023
WeekdayDates == {738855, 738858}

\* the hour of the day in which reading x of a channel of interval_length
\* minutes starts
StartHour(x, interval_length) ==
    CHOOSE h \in 0..23 :
        /\ h * 60 <= (x.interval - 1) * interval_length
        /\ (x.interval - 1) * interval_length < (h + 1) * 60

InPeakWindow(x, interval_length) ==
    /\ x.date \in WeekdayDates
    /\ 7 <= StartHour(x, interval_length)
    /\ StartHour(x, interval_length) < 22

\* C25: a reading counts as peak exactly when its date is a Monday to
\* Friday and it starts at or after 07:00 and before 22:00; every reading
\* stored for the channel is counted once, as peak or as off-peak.
C25_PeakIsWeekdaySevenToTwentyTwo ==
    (/\ pc = "done"
     /\ response.op = "get_consumption_summary"
     /\ Nem12FileId \in DOMAIN nem12_file_data) =>
        LET data == nem12_file_data[Nem12FileId]
        IN  /\ Len(SummariesReturned) = Len(data.meters)
            /\ \A n \in DOMAIN data.meters :
                  LET length == data.meters[n].interval_length
                      stored == data.intervals[data.meters[n].nmi]
                      peak == SelectSeq(stored,
                                  LAMBDA x : InPeakWindow(x, length))
                      off_peak == SelectSeq(stored,
                                  LAMBDA x : ~InPeakWindow(x, length))
                  IN  /\ SummariesReturned[n].peak_kwh
                            = SumValues(peak, 1, Len(peak))
                      /\ SummariesReturned[n].off_peak_kwh
                            = SumValues(off_peak, 1, Len(off_peak))

\* a Friday of hourly readings: the fifteen readings from 07:00 to 21:00
\* are peak, the 2.5 kWh reading at 07:00 among them, and the nine others
\* off-peak
C25_Witness ==
    /\ pc = "done"
    /\ response.op = "get_consumption_summary"
    /\ Len(nem12_content) = 3
    /\ nem12_content[1] = Row200("60")
    /\ nem12_content[2][2] = "20231201"
    /\ nem12_content[2][10] = "2.5"
    /\ Len(SummariesReturned) = 1
    /\ SummariesReturned[1].peak_kwh = 33
    /\ SummariesReturned[1].off_peak_kwh = 18

(***************************************************************************)
(* Claim on the finalizing of channels by process_nem12 (SpecNem12)        *)
(***************************************************************************)
\* the 200 rows of the file, in file order
OpenedChannels ==
    SelectSeq([k \in 1..Len(nem12_content) |-> k],
              LAMBDA k : nem12_content[k][1] = "200")

\* C30 (as stated): the list ingest returns holds each channel opened by a
\* 200 row exactly once, in file order, with an interval count that is the
\* number of readings stored for it.
C30_EachOpenedChannelReturnedOnce ==
    (/\ pc = "processed"
     /\ response.op = "process_nem12"
     /\ response.reply.ok) =>
        LET meters == response.reply.value[1]
            stored == nem12_file_data[Nem12FileId].intervals
        IN  /\ Len(meters) = Len(OpenedChannels)
            /\ \A n \in DOMAIN meters :
                  /\ meters[n].nmi = nem12_content[OpenedChannels[n]][2]
                  /\ meters[n].interval_count = <<Len(stored[meters[n].nmi])>>

(***************************************************************************)
(* Claims on the buckets of _reconcile_line_items (SpecMatch, SpecBuckets) *)
(***************************************************************************)
\* calculated item k is paired with an invoiced item that comes before
\* invoiced item i
PairedBefore(k, i) ==
    \E n \in DOMAIN reconciled :
        /\ IsPair(reconciled[n])
        /\ reconciled[n].calculated_quantity = <<k>>
        /\ reconciled[n].invoiced_quantity[1] < i

\* the calculated items of the charge type of invoiced item i that no
\* earlier invoiced item is paired with
AvailableFor(i) ==
    {k \in 1..Len(calculated_items) :
        /\ calculated_items[k].charge_type = invoiced_items[i].charge_type
        /\ ~PairedBefore(k, i)}

\* C28 (as stated): an invoiced item is left unmatched only if every
\* calculated item of its own charge type is paired with an earlier
\* invoiced item (none, when its bucket is empty): a pairing in one charge
\* type takes no calculated item of another charge type away.
C28_UnmatchedOnlyWhenOwnBucketExhausted ==
    pc = "done" =>
        \A i \in 1..Len(invoiced_items) :
            (\E n \in RecordsOfInvoiced(i) : ~IsPair(reconciled[n])) =>
                AvailableFor(i) = {}

\* C29 (as stated): the calculated item paired with an invoiced item is,
\* among the calculated items of its charge type not paired with an earlier
\* invoiced item, the one whose amount is nearest to the invoiced amount,
\* and among equally near ones the first in bucket order.
C29_PairedWithNearestAvailable ==
    pc = "done" =>
        \A i \in 1..Len(invoiced_items) :
            \A n \in RecordsOfInvoiced(i) :
                IsPair(reconciled[n]) =>
                    LET k == reconciled[n].calculated_quantity[1]
                        diff(m) == Abs(invoiced_items[i].amount
                                           - calculated_items[m].amount)
                    IN  /\ k \in AvailableFor(i)
                        /\ \A m \in AvailableFor(i) :
                              \/ diff(k) < diff(m)
                              \/ diff(k) = diff(m) /\ k <= m

(***************************************************************************)
(* Claim on the stored summaries of the engine (SpecEngine)                *)
(***************************************************************************)
\* the step is a reconcile that returned
ReconcileReturned ==
    /\ response'.op = "run_reconciliation"
    /\ response'.reply.status = 200
    /\ response' # response

\* C26: a summary is stored once per run and never changed afterwards: a
\* run that returns adds exactly one summary, the one it returns, under an
\* id no stored summary has; every other step adds none; no step changes
\* or removes a stored summary; and get_reconciliation(X) returns the
\* summary the run that generated X returned.
C26_SummaryStoredOnceAndKept ==
    [][ /\ \A id \in DOMAIN reconciliations :
              /\ id \in DOMAIN reconciliations'
              /\ reconciliations'[id] = reconciliations[id]
        /\ IF ReconcileReturned
           THEN \E id \in DOMAIN reconciliations' \ DOMAIN reconciliations :
                   /\ DOMAIN reconciliations' = DOMAIN reconciliations \cup {id}
                   /\ response'.reply.body[1].reconciliation_id = id
                   /\ reconciliations'[id] = response'.reply.body[1]
           ELSE DOMAIN reconciliations' = DOMAIN reconciliations
        /\ \A k \in DOMAIN runs' :
              /\ runs'[k].result.reconciliation_id \in DOMAIN reconciliations'
              /\ reconciliations'[runs'[k].result.reconciliation_id]
                    = runs'[k].result
        /\ response'.op = "get_reconciliation" =>
              LET id == response'.request.reconciliation_id
                  returned == {k \in DOMAIN runs' :
                                  runs'[k].result.reconciliation_id = id}
              IN  IF returned = {}
                  THEN response'.reply.status = 404
                  ELSE \A k \in returned :
                          response'.reply = HttpOk(runs'[k].result)
      ]_vars

\* the summary of the first run is fetched after a second run on another
\* file returned a different summary
C26_Witness ==
    /\ Len(runs) >= 2
    /\ WithoutId(runs[1].result) # WithoutId(runs[2].result)
    /\ response.op = "get_reconciliation"
    /\ response.request.reconciliation_id = runs[1].result.reconciliation_id
    /\ response.reply = HttpOk(runs[1].result)
    /\ Cardinality(DOMAIN reconciliations) = Len(runs)

(***************************************************************************)
(* Claim on reconcile calls in parallel (SpecParallel)                     *)
(***************************************************************************)
\* what call t returns or raises when it is the only call on the engine
\* (the id apart)
Alone(t) == reconcile(engine_invoices, engine_file_data, tasks[t].request, 0)

\* C27: however two reconcile calls are interleaved at their awaits, each
\* ends as it does when run alone, returning the same summary but for the
\* generated id or raising the same error, and every summary returned is
\* stored under its own id.
C27_ParallelRunsAsAlone ==
    /\ \A t \in RunIds :
          tasks[t].pc = "done" =>
              LET reply == tasks[t].reply[1]
              IN  IF Alone(t).ok
                  THEN /\ reply.ok
                       /\ WithoutId(reply.value[1]) = WithoutId(Alone(t).value[1])
                       /\ reply.value[1].reconciliation_id \in DOMAIN reconciliations
                       /\ reconciliations[reply.value[1].reconciliation_id]
                             = reply.value[1]
                  ELSE reply = Alone(t)
    /\ \A t \in RunIds : \A u \in RunIds \ {t} :
          (/\ tasks[t].pc = "done" /\ tasks[t].reply[1].ok
           /\ tasks[u].pc = "done" /\ tasks[u].reply[1].ok) =>
              tasks[t].reply[1].value[1].reconciliation_id
                  # tasks[u].reply[1].value[1].reconciliation_id

\* two calls on different files, each of which took steps while the other
\* was suspended, have both returned, with different summaries, and the
\* call listed second returned first
C27_Witness ==
    /\ \A t \in RunIds :
          tasks[t].pc = "done" /\ tasks[t].reply[1].ok /\ tasks[t].overlapped
    /\ tasks[1].request.nem12_file_id # tasks[2].request.nem12_file_id
    /\ WithoutId(tasks[1].reply[1].value[1]) # WithoutId(tasks[2].reply[1].value[1])
    /\ tasks[2].reply[1].value[1].reconciliation_id = 1
    /\ Cardinality(DOMAIN reconciliations) = 2

====
